---------------------------- MODULE Spec2Model ----------------------------
(***************************************************************************)
(* Model of investing/data.py (market_day, parse_period, Ticker,           *)
(* Portfolio), of the fetch functions of investing/download.py they call   *)
(* and of Launcher._refresh_tickers of launcher.py.                        *)
(*                                                                         *)
(* Time.  An instant is a number of hours since 1970-01-01 00:00 UTC, a    *)
(* date is a number of days since 1970-01-01 (a Thursday).  `now` is the   *)
(* wall clock, `tz` the UTC offset in hours of conf['locale'], which is    *)
(* also taken to be the time zone date.today() and datetime.today() use.   *)
(*                                                                         *)
(* Text.  A Python str is a sequence of one-character strings, so that     *)
(* str.split and int() are modelled by what they do to the characters.     *)
(***************************************************************************)
EXTENDS Integers, Sequences, FiniteSets, TLC

VARIABLES
    now,          \* the wall clock, an instant
    tz,           \* UTC offset of conf['locale'], in hours
    isForex,      \* whether the Ticker's symbol is in mappings.forex
    csv,          \* the price file of the symbol on disk
    data,         \* Ticker.data: rows [date, price] in index order
    holdingsCsv,  \* the holdings file of the symbol on disk
    holdings,     \* Ticker.holdings
    res,          \* how the call on the Ticker ended, "idle" between calls
    mode,         \* the fetch the last refresh requested
    new,          \* the series the last refresh fetched
    pre,          \* the price file and the Ticker as the call found them
    did,          \* the writes and the holdings fetch the last call made
    call,         \* the last call of market_day or parse_period
    ret           \* and what it returned

vars == <<now, tz, isForex, csv, data, holdingsCsv, holdings, res, mode, new, pre, did, call, ret>>

\* the record of a pure function not called yet
NoCall == [fn |-> "none"]

-----------------------------------------------------------------------------
(* Bounds of the model *)

\* the clock runs over the days FirstDay .. FirstDay + ClockDays - 1
ClockDays == 2

\* rows of a price file present at the start
MaxFileLen == 2

\* rows of a fetched series
MaxFetchLen == 2

\* multipliers of a period string are 0 .. MaxMult
MaxMult == 11

\* search_days arguments are 0 .. MaxSearch
MaxSearch == 7

\* rows of a price series a metric is taken of (besides the test series)
MaxSeriesLen == 2

\* tickers of a portfolio
MaxTickers == 2

\* Thursday 1970-04-16, fifteen weeks after day 0
FirstDay == 15 * 7

LastDay == FirstDay + ClockDays - 1

\* UTC hours of the day at which the clock is read: New York midnight, in
\* the session and after the close of the New York exchange
ClockHours == {5, 16, 22}

\* US/Eastern (standard time) and Australia/Brisbane
TzOffsets == {-5, 10}

Instants == {d * 24 + h : d \in FirstDay .. LastDay, h \in ClockHours}

\* the dates a price row can carry: one old trading day and the trading
\* days around the clock
SeriesDays == {5, 104, 105, 106}

\* the dates of the rows of a price file present at the start
FileDays == {5, 104}

\* two prices tell an incoming row from an existing row of the same date
Prices == {1, 2}

-----------------------------------------------------------------------------
(* Dates and the exchange calendar *)

\* date.today(), datetime.now(tz).date(): the local calendar date
LocalDate(t, off) == (t + off) \div 24

\* datetime.today(): the local wall time, as naive hours
LocalTime(t, off) == t + off

\* pd.Timestamp(date): midnight of a date, as naive hours
Midnight(d) == d * 24

\* NYSE holidays inside the modelled range (none in April 1970 but weekends)
Holidays == {}

\* mcal NYSE calendar: Monday to Friday but holidays; day 0 is a Thursday
IsTradingDay(d) == (d % 7) \notin {2, 3} /\ d \notin Holidays

\* nyse.schedule(d, d).market_close[0]: 16:00 New York = 21:00 UTC
MarketCloseHourUTC == 21

market_close(d) == d * 24 + MarketCloseHourUTC

\* nyse.valid_days(start_date, end_date): ascending trading days
RECURSIVE valid_days(_, _)
valid_days(start, end) ==
    IF start > end THEN <<>>
    ELSE (IF IsTradingDay(start) THEN <<start>> ELSE <<>>) \o valid_days(start + 1, end)

\* x[idx] of Python on a 0-based index: negative indices count from the end
PyInRange(s, idx) == -Len(s) <= idx /\ idx < Len(s)

PyIndex(s, idx) == IF idx >= 0 THEN s[idx + 1] ELSE s[Len(s) + idx + 1]

Returned(d) == [err |-> "none", val |-> d]

Raised(e) == [err |-> e, val |-> 0]

Directions == {"previous", "latest", "next"}

\* diffs[diffs <= timedelta(0)].idxmax(): 0-based position of the last
\* valid day not after the reference, -1 standing for "no such day"
anchor_index(recent, ref_day) ==
    LET le == {i \in 1 .. Len(recent) : recent[i] <= ref_day}
    IN  IF le = {} THEN -1
        ELSE (CHOOSE i \in le : \A j \in le : recent[j] <= recent[i]) - 1

\* whether the anchor is stepped back: the close of the anchor day falls on
\* the local date of now and is still ahead
steps_back(latest_valid, t, off) ==
    /\ market_close(latest_valid) \div 24 = LocalDate(t, off)
    /\ market_close(latest_valid) > t

direction_offset(direction) ==
    IF direction = "previous" THEN -1 ELSE IF direction = "next" THEN 1 ELSE 0

\* the reference argument: the string 'today' or a date string
Today == [kind |-> "today", date |-> 0]

OnDate(d) == [kind |-> "date", date |-> d]

\* market_day(direction, reference, search_days) read at instant t in zone
\* off
market_day(direction, reference, search_days, t, off) ==
    LET ref_day == IF reference.kind = "today" THEN LocalDate(t, off) ELSE reference.date
        recent  == valid_days(ref_day - search_days, ref_day + search_days)
        idx0    == anchor_index(recent, ref_day)
    IN  IF Len(recent) = 0 THEN Raised("RuntimeError")
        ELSE IF idx0 < 0 THEN Raised("IndexError")
        ELSE LET latest_valid == recent[idx0 + 1]
                 idx1 == IF steps_back(latest_valid, t, off) THEN idx0 - 1 ELSE idx0
                 idx2 == idx1 + direction_offset(direction)
             IN  IF direction \notin Directions THEN Raised("AssertionError")
                 ELSE IF ~PyInRange(recent, idx2) THEN Raised("IndexError")
                 ELSE Returned(PyIndex(recent, idx2))

-----------------------------------------------------------------------------
(* Text *)

Digits == <<"0", "1", "2", "3", "4", "5", "6", "7", "8", "9">>

DigitValue(c) == (CHOOSE i \in 1 .. 10 : Digits[i] = c) - 1

IsDigit(c) == \E i \in 1 .. 10 : Digits[i] = c

\* str(n) for n >= 0
RECURSIVE IntToStr(_)
IntToStr(n) == IF n < 10 THEN <<Digits[n + 1]>> ELSE Append(IntToStr(n \div 10), Digits[(n % 10) + 1])

\* int(s) on a string of decimal digits with an optional sign in front
RECURSIVE DigitsToInt(_)
DigitsToInt(s) ==
    IF s = <<>> THEN 0 ELSE 10 * DigitsToInt(SubSeq(s, 1, Len(s) - 1)) + DigitValue(s[Len(s)])

IsDigitStr(s) == s # <<>> /\ \A i \in 1 .. Len(s) : IsDigit(s[i])

py_int(s) ==
    IF IsDigitStr(s) THEN Returned(DigitsToInt(s))
    ELSE IF s # <<>> /\ s[1] = "+" /\ IsDigitStr(Tail(s)) THEN Returned(DigitsToInt(Tail(s)))
    ELSE Raised("ValueError")

\* s.split(sep): the parts of s between the occurrences of the character sep
RECURSIVE split(_, _)
split(s, sep) ==
    IF \A i \in 1 .. Len(s) : s[i] # sep THEN <<s>>
    ELSE LET k == CHOOSE i \in 1 .. Len(s) : s[i] = sep /\ \A j \in 1 .. i - 1 : s[j] # sep
         IN  <<SubSeq(s, 1, k - 1)>> \o split(SubSeq(s, k + 1, Len(s)), sep)

Contains(s, c) == \E i \in 1 .. Len(s) : s[i] = c

StrDay == <<"d", "a", "y">>
StrWeek == <<"w", "e", "e", "k">>
StrMonth == <<"m", "o", "n", "t", "h">>
StrQuarter == <<"q", "u", "a", "r", "t", "e", "r">>
StrYear == <<"y", "e", "a", "r">>
StrYtd == <<"y", "t", "d">>
StrYearly == <<"y", "e", "a", "r", "l", "y">>
StrDaily == <<"d", "a", "i", "l", "y">>
StrMonthly == <<"m", "o", "n", "t", "h", "l", "y">>

-----------------------------------------------------------------------------
(* parse_period *)

\* datetime(today.year, 1, 1) as a date, for the years 1970 and 1971
YearStart(d) == IF d < 365 THEN 0 ELSE 365

keyword_durations_month31(today) ==
    [k \in {StrDay, StrWeek, StrMonth, StrQuarter, StrYear, StrYtd} |->
        IF k = StrDay THEN 1
        ELSE IF k = StrWeek THEN 7
        ELSE IF k = StrMonth THEN 31
        ELSE IF k = StrQuarter THEN 91
        ELSE IF k = StrYear THEN 365
        ELSE today - YearStart(today)]

\* the dict keyword_durations, today being the local date
keyword_durations(today) ==
    [k \in {StrDay, StrWeek, StrMonth, StrQuarter, StrYear, StrYtd} |->
        IF k = StrDay THEN 1
        ELSE IF k = StrWeek THEN 7
        ELSE IF k = StrMonth THEN 30
        ELSE IF k = StrQuarter THEN 91
        ELSE IF k = StrYear THEN 365
        ELSE today - YearStart(today)]

\* parse_period(period); period is [type, val] with type "int", "str" or
\* any other Python type
parse_period(period, t, off) ==
    IF period.type = "int" THEN Returned(period.value)
    ELSE IF period.type = "str" THEN
        LET durations == keyword_durations(LocalDate(t, off))
            parts == split(period.value, "-")
            dashed == Contains(period.value, "-")
        IN  IF dashed /\ Len(parts) # 2 THEN Raised("ValueError")
            ELSE LET multiplier == IF dashed THEN py_int(parts[1]) ELSE Returned(1)
                     keyword == IF dashed THEN parts[2] ELSE period.value
                 IN  IF multiplier.err # "none" THEN multiplier
                     ELSE IF keyword \notin DOMAIN durations THEN Raised("ValueError")
                     ELSE Returned(multiplier.val * durations[keyword])
    ELSE Raised("ValueError")

-----------------------------------------------------------------------------
(* Price series: sequences of rows [date, price] in index order *)

Row(d, p) == [date |-> d, price |-> p]

Rows(dates) == {Row(d, p) : d \in dates, p \in Prices}

Dates(s) == {s[i].date : i \in DOMAIN s}

NoDuplicates(s) == \A i, j \in DOMAIN s : s[i].date = s[j].date => i = j

IsSorted(s) == \A i, j \in DOMAIN s : i < j => s[i].date <= s[j].date

\* data.index.max()
MaxDate(s) == CHOOSE d \in Dates(s) : \A e \in Dates(s) : e <= d

\* the price the series holds first for a date
PriceOn(s, d) == s[CHOOSE i \in DOMAIN s : s[i].date = d /\ \A j \in 1 .. i - 1 : s[j].date # d].price

\* all sequences over rows of the dates, of length 1 .. n
SeqsUpTo(dates, n) == UNION {[1 .. k -> Rows(dates)] : k \in 1 .. n}

\* what a provider's JSON object yields: one row per date key, in any order
UniqueSeries(dates, n) == {s \in SeqsUpTo(dates, n) : NoDuplicates(s)}

\* combined[~combined.index.duplicated()]: a row is dropped when an earlier
\* row carries its date
RECURSIVE drop_duplicated(_)
drop_duplicated(s) ==
    IF s = <<>> THEN <<>>
    ELSE LET front == SubSeq(s, 1, Len(s) - 1)
             last  == s[Len(s)]
         IN  IF last.date \in Dates(front) THEN drop_duplicated(front)
             ELSE Append(drop_duplicated(front), last)

\* the places a row can take in an ascending sequence
Inserts(t, x) ==
    {SubSeq(t, 1, k) \o <<x>> \o SubSeq(t, k + 1, Len(t)) :
        k \in {k \in 0 .. Len(t) : /\ \A i \in 1 .. k : t[i].date <= x.date
                                   /\ \A i \in k + 1 .. Len(t) : t[i].date >= x.date}}

\* _sort_dates: data.sort_index() with the default quicksort, which is not
\* stable: every ascending arrangement of the rows is a possible outcome
RECURSIVE sort_dates(_)
sort_dates(s) ==
    IF s = <<>> THEN {<<>>}
    ELSE UNION {Inserts(t, s[1]) : t \in sort_dates(Tail(s))}

\* whether a frame has the relative column
has_relative(frame) == frame # <<>> /\ "relative" \in DOMAIN frame[1]

\* pd.concat([new, existing]): the rows of new, then those of existing, under
\* the columns of both; new has no relative column and its rows get NaN there
concat(n, existing) ==
    IF has_relative(existing)
    THEN [i \in DOMAIN n |-> [date |-> n[i].date, price |-> n[i].price, relative |-> [num |-> 0, den |-> 0]]] \o existing
    ELSE n \o existing

concat_only(exists, existing, n) == IF exists THEN n \o existing ELSE n

existing_first(exists, existing, n) ==
    IF exists THEN drop_duplicated(existing \o n) ELSE n

\* the frame refresh sorts and writes: new over existing when a price file
\* exists, new alone otherwise
combine(exists, existing, n) ==
    IF exists THEN drop_duplicated(concat(n, existing)) ELSE n

\* the outcomes of merging a fetched series n into a Ticker
merge(exists, existing, n) == sort_dates(combine(exists, existing, n))

-----------------------------------------------------------------------------
(* Holdings tables: sequences of rows [symbol, pct], pct in percent *)

Symbols == {"AAA", "BBB"}

Pcts == {1, 2}

HRow(s, p) == [symbol |-> s, pct |-> p]

\* the tables a holdings page can yield: two constituents in either order
\* of weight
RawTables == {<<HRow("AAA", 1), HRow("BBB", 2)>>, <<HRow("AAA", 2), HRow("BBB", 1)>>}

IsDescending(h) == \A i, j \in DOMAIN h : i < j => h[i].pct >= h[j].pct

\* df.sort_values('pct', ascending=False) with the default quicksort:
\* every descending arrangement of the rows
sort_values(h) ==
    IF Len(h) = 1 THEN {h}
    ELSE {t \in {h, <<h[2], h[1]>>} : IsDescending(t)}

\* Holdings(symbol).download() when it returns
DownloadedTables == UNION {sort_values(h) : h \in RawTables}

NoFile == [exists |-> FALSE, rows |-> <<>>]

File(rows) == [exists |-> TRUE, rows |-> rows]

-----------------------------------------------------------------------------
(* Ticker *)

has_csv == csv.exists

\* the default of market_day's search_days
DefaultSearchDays == 7

\* Ticker.is_current of a Ticker holding the series d
is_current(d) ==
    IF Len(d) = 0 THEN Returned(FALSE)
    ELSE LET latest_close == market_day("latest", Today, DefaultSearchDays, now, tz)
         IN  IF latest_close.err # "none" THEN latest_close
             ELSE Returned(latest_close.val <= MaxDate(d))

never_early == FALSE

\* refresh returns at once
returns_early == is_current(data).val

StaleDays == 100

always_compact == "compact"

\* the length refresh computes
fetch_length ==
    IF has_csv THEN
        IF Midnight(MaxDate(data)) < LocalTime(now, tz) - StaleDays * 24 THEN "full" ELSE "compact"
    ELSE "full"

\* the request refresh makes: metals(symbol) takes no length
fetch_request == IF isForex THEN "metals" ELSE fetch_length

MetalsLookBack == 5

\* the dates the provider asked can answer with
fetch_dates ==
    IF isForex THEN
        LET end_date == LocalDate(now, tz) - 1
        IN  {d \in SeriesDays : end_date - MetalsLookBack <= d /\ d <= end_date}
    ELSE {d \in SeriesDays : d <= now \div 24}

\* the series timeseries() or metals() can return
fetched_series == UniqueSeries(fetch_dates, MaxFetchLen)

written_never(d) == csv

\* self.data.to_csv(self.csv_path): the file holds the frame
written(d) == File(d)

\* what a call finds
Found == [holdings |-> holdings, csv |-> csv, data |-> data]

\* Ticker(symbol): load both files
construct ==
    /\ res = "idle"
    /\ data' \in sort_dates(csv.rows)
    /\ holdings' = holdingsCsv
    /\ res' = "constructed"
    /\ mode' = "none"
    /\ new' = <<>>
    /\ pre' = Found
    /\ did' = {}
    /\ UNCHANGED <<now, tz, isForex, csv, holdingsCsv, call, ret>>

\* refresh ends before it fetched or wrote anything
ends_untouched(how, request) ==
    /\ res' = how
    /\ mode' = request
    /\ new' = <<>>
    /\ did' = {}
    /\ UNCHANGED <<csv, data, holdingsCsv, holdings>>

\* Ticker.refresh(holdings=h)
refresh(h) ==
    /\ res = "idle"
    /\ UNCHANGED <<now, tz, isForex, call, ret>>
    /\ pre' = Found
    /\ IF is_current(data).err # "none" THEN ends_untouched("calendar_error", "none")
       ELSE IF returns_early THEN ends_untouched("noop", "none")
       ELSE \/ ends_untouched("fetch_error", fetch_request)
            \/ \E n \in fetched_series :
                  /\ new' = n
                  /\ mode' = fetch_request
                  /\ data' \in merge(has_csv, data, n)
                  /\ csv' = written(data')
                  /\ IF h
                     THEN \/ /\ res' = "holdings_error"
                             /\ did' = {"to_csv", "download"}
                             /\ UNCHANGED <<holdingsCsv, holdings>>
                          \/ \E latest \in DownloadedTables :
                                /\ res' = "refreshed"
                                /\ did' = {"to_csv", "download", "holdings_to_csv"}
                                /\ holdingsCsv' = File(latest)
                                /\ holdings' = File(latest)
                     ELSE /\ res' = "refreshed"
                          /\ did' = {"to_csv"}
                          /\ UNCHANGED <<holdingsCsv, holdings>>

\* the caller has seen how the call ended and drops what it recorded
Cleared == [holdings |-> NoFile, csv |-> NoFile, data |-> <<>>]

returns ==
    /\ res # "idle"
    /\ res' = "idle"
    /\ mode' = "none"
    /\ new' = <<>>
    /\ pre' = Cleared
    /\ did' = {}
    /\ UNCHANGED <<now, tz, isForex, csv, data, holdingsCsv, holdings, call, ret>>

\* time passes to the next reading of the clock
tick ==
    /\ res = "idle"
    /\ \E t \in Instants :
          /\ t > now
          /\ \A u \in Instants : u > now => t <= u
          /\ now' = t
    /\ UNCHANGED <<tz, isForex, csv, data, holdingsCsv, holdings, res, mode, new, pre, did, call, ret>>


\* the price files a Ticker can find: none, or one an earlier refresh wrote,
\* which holds one row per date in ascending order
InitFiles(t) ==
    {NoFile} \cup
    {File(s) : s \in {u \in SeqsUpTo({d \in FileDays : d <= t \div 24}, MaxFileLen) :
                        NoDuplicates(u) /\ IsSorted(u)}}

\* the holdings files a Ticker can find: none, or one an earlier refresh wrote
InitHoldings == {NoFile} \cup {File(t) : t \in DownloadedTables}

\* a Ticker just constructed, at any reading of the clock
Init ==
    /\ now \in Instants
    /\ tz \in TzOffsets
    /\ isForex \in BOOLEAN
    /\ csv \in InitFiles(now)
    /\ data \in sort_dates(csv.rows)
    /\ holdingsCsv \in InitHoldings
    /\ holdings = holdingsCsv
    /\ res = "idle"
    /\ mode = "none"
    /\ new = <<>>
    /\ pre = Cleared
    /\ did = {}
    /\ call = NoCall
    /\ ret = Returned(0)

Next ==
    \/ construct
    \/ \E h \in BOOLEAN : refresh(h)
    \/ returns
    \/ tick

Spec == Init /\ [][Next]_vars

-----------------------------------------------------------------------------
(* market_day and parse_period called on their own *)

\* no Ticker: only the clock and the locale matter
InitPure ==
    /\ now \in Instants
    /\ tz \in TzOffsets
    /\ isForex = FALSE
    /\ csv = NoFile
    /\ data = <<>>
    /\ holdingsCsv = NoFile
    /\ holdings = NoFile
    /\ res = "idle"
    /\ mode = "none"
    /\ new = <<>>
    /\ pre = Cleared
    /\ did = {}
    /\ call = NoCall
    /\ ret = Returned(0)

\* the reference dates: Saturday 1970-04-11 to Saturday 1970-04-18
ReferenceDays == FirstDay - 5 .. FirstDay + 2

call_market_day ==
    /\ call = NoCall
    /\ \E direction \in Directions \cup {"sideways"},
          reference \in {Today} \cup {OnDate(d) : d \in ReferenceDays},
          search_days \in 0 .. MaxSearch :
          /\ call' = [fn |-> "market_day", direction |-> direction,
                      reference |-> reference, search_days |-> search_days]
          /\ ret' = market_day(direction, reference, search_days, now, tz)
    /\ UNCHANGED <<now, tz, isForex, csv, data, holdingsCsv, holdings, res, mode, new, pre, did>>

NextCal == call_market_day

SpecCal == InitPure /\ [][NextCal]_vars

Keywords == {StrDay, StrWeek, StrMonth, StrQuarter, StrYear, StrYtd}

\* '<m>-<keyword>'
Dashed(m, k) == IntToStr(m) \o <<"-">> \o k

\* the strings parse_period is called with
PeriodStrings ==
    {Dashed(m, k) : m \in 0 .. MaxMult, k \in Keywords}
    \cup Keywords
    \cup {StrYearly, StrDaily, StrMonthly}
    \cup {Dashed(1, Dashed(2, StrDay)), <<"x">> \o Dashed(1, StrDay), <<"-">> \o StrDay,
          <<"+">> \o Dashed(2, StrWeek), Dashed(2, StrYearly), <<>>}

parsed(period) ==
    /\ call = NoCall
    /\ call' = [fn |-> "parse_period", period |-> period]
    /\ ret' = parse_period(period, now, tz)
    /\ UNCHANGED <<now, tz, isForex, csv, data, holdingsCsv, holdings, res, mode, new, pre, did>>

call_parse_period ==
    \/ \E s \in PeriodStrings : parsed([type |-> "str", value |-> s])
    \/ \E n \in 0 .. MaxMult : parsed([type |-> "int", value |-> n])
    \/ parsed([type |-> "float", value |-> 0])

NextPeriod == call_parse_period

SpecPeriod == InitPure /\ [][NextPeriod]_vars

-----------------------------------------------------------------------------
(* Numbers: a float is modelled by the rational it stands for *)

Abs(x) == IF x < 0 THEN -x ELSE x

RECURSIVE GCD(_, _)
GCD(a, b) == IF b = 0 THEN a ELSE GCD(b, a % b)

\* the rational n / d in lowest terms, d # 0
Frac(n, d) ==
    LET g == GCD(Abs(n), Abs(d))
        sign == IF d < 0 THEN -1 ELSE 1
    IN  [num |-> (sign * n) \div g, den |-> (sign * d) \div g]

FAdd(x, y) == Frac(x.num * y.den + y.num * x.den, x.den * y.den)

FSub(x, y) == Frac(x.num * y.den - y.num * x.den, x.den * y.den)

FMul(x, y) == Frac(x.num * y.num, x.den * y.den)

\* x / y, y # 0
FDiv(x, y) == Frac(x.num * y.den, x.den * y.num)

FLe(x, y) == x.num * y.den <= y.num * x.den

RECURSIVE FSum(_)
FSum(xs) == IF xs = <<>> THEN Frac(0, 1) ELSE FAdd(xs[1], FSum(Tail(xs)))

\* float('nan') and float('inf')
NaN == [num |-> 0, den |-> 0]

Inf == [num |-> 1, den |-> 0]

-----------------------------------------------------------------------------
(* The civil calendar of 1969 .. 1971, none of them a leap year *)

\* days of the year before the first of each month
CumDays == <<0, 31, 59, 90, 120, 151, 181, 212, 243, 273, 304, 334, 365>>

CivilYear(d) == 1969 + (d + 365) \div 365

DayOfYear(d) == (d + 365) % 365

MonthOf(d) == CHOOSE m \in 1 .. 12 : CumDays[m] <= DayOfYear(d) /\ DayOfYear(d) < CumDays[m + 1]

DayOfMonth(d) == DayOfYear(d) - CumDays[MonthOf(d)] + 1

MonthLength(m) == CumDays[m + 1] - CumDays[m]

\* date(y, m, dd) as days since 1970-01-01
CivilDay(y, m, dd) == (y - 1970) * 365 + CumDays[m] + dd - 1

\* d - relativedelta(months=k): the same day of the month k months before,
\* or the last day of that month when it is shorter
minus_months(d, k) ==
    LET total == CivilYear(d) * 12 + (MonthOf(d) - 1) - k
        y == total \div 12
        m == (total % 12) + 1
        dd == IF DayOfMonth(d) <= MonthLength(m) THEN DayOfMonth(d) ELSE MonthLength(m)
    IN  CivilDay(y, m, dd)

\* d - relativedelta(years=k)
minus_years(d, k) == CivilDay(CivilYear(d) - k, MonthOf(d), DayOfMonth(d))

-----------------------------------------------------------------------------
(* Ticker: returns over the price series *)

\* data.price.pct_change(n): each price over the price n rows before it,
\* minus 1, and NaN where there is no such row
pct_change(s, n) ==
    [i \in 1 .. Len(s) |->
        IF i - n < 1 \/ i - n > Len(s) THEN NaN
        ELSE LET p == s[i].price
                 q == s[i - n].price
             IN  IF q = 0 THEN (IF p = 0 THEN NaN ELSE Inf)
                 ELSE FSub(Frac(p, q), Frac(1, 1))]

dropna(xs) == SelectSeq(xs, LAMBDA x : x # NaN)

\* Series.mean(): NaN for an empty series
mean(xs) == IF xs = <<>> THEN NaN ELSE FDiv(FSum(xs), Frac(Len(xs), 1))

rolling_undropped(s, period, average, t, off) ==
    LET days == parse_period(period, t, off)
    IN  IF days.err # "none" THEN days
        ELSE LET rolling == pct_change(s, days.val)
             IN  Returned(IF average THEN mean(rolling) ELSE rolling)

\* Ticker._rolling(period, average)
rolling(s, period, average, t, off) ==
    LET days == parse_period(period, t, off)
    IN  IF days.err # "none" THEN days
        ELSE LET kept == dropna(pct_change(s, days.val))
             IN  Returned(IF average THEN mean(kept) ELSE kept)

nearest_earlier(s, target) ==
    IF s = <<>> THEN Raised("KeyError")
    ELSE IF target \in Dates(s) THEN Returned(target)
    ELSE IF ~NoDuplicates(s) THEN Raised("InvalidIndexError")
    ELSE IF ~IsSorted(s) THEN Raised("ValueError")
    ELSE Returned(CHOOSE d \in Dates(s) :
             \A e \in Dates(s) :
                \/ Abs(d - target) < Abs(e - target)
                \/ (Abs(d - target) = Abs(e - target) /\ d <= e))

\* index.get_loc(target, method='nearest') on a unique ascending index: the
\* date at the least distance, the later one of two at the same distance
nearest(s, target) ==
    IF s = <<>> THEN Raised("KeyError")
    ELSE IF target \in Dates(s) THEN Returned(target)
    ELSE IF ~NoDuplicates(s) THEN Raised("InvalidIndexError")
    ELSE IF ~IsSorted(s) THEN Raised("ValueError")
    ELSE Returned(CHOOSE d \in Dates(s) :
             \A e \in Dates(s) :
                \/ Abs(d - target) < Abs(e - target)
                \/ (Abs(d - target) = Abs(e - target) /\ e <= d))

price_exact(s, target, exact) ==
    IF target \in Dates(s) THEN Returned(Frac(PriceOn(s, target), 1)) ELSE Raised("ValueError")

\* Ticker.price(date, exact) on a series with one row per date
price(s, target, exact) ==
    IF target \in Dates(s) THEN Returned(Frac(PriceOn(s, target), 1))
    ELSE IF exact THEN Raised("ValueError")
    ELSE LET found == nearest(s, target)
         IN  IF found.err # "none" THEN found
             ELSE Returned(Frac(PriceOn(s, found.val), 1))

\* end_dt - relativedelta(**{keyword + 's': multiplier})
relativedelta(d, keyword, multiplier) ==
    IF keyword = StrDay THEN d - multiplier
    ELSE IF keyword = StrMonth THEN minus_months(d, multiplier)
    ELSE minus_years(d, multiplier)

\* Ticker._trailing(period, end)
trailing(s, period, end, t, off) ==
    IF period.type # "str" THEN Raised("TypeError")
    ELSE
    LET end_dt == IF end.kind = "today" THEN LocalDate(t, off) ELSE end.date
        parts == split(period.value, "-")
        dashed == Contains(period.value, "-")
    IN  IF dashed /\ Len(parts) # 2 THEN Raised("ValueError")
        ELSE
        LET multiplier == IF dashed THEN py_int(parts[1]) ELSE Returned(1)
            keyword == IF dashed THEN parts[2] ELSE period.value
        IN  IF multiplier.err # "none" THEN multiplier
            ELSE
            LET days == parse_period(period, t, off)
                calendar == keyword \in {StrDay, StrMonth, StrYear}
            IN  IF ~calendar /\ days.err # "none" THEN days
                ELSE
                LET trail_dt == IF calendar THEN relativedelta(end_dt, keyword, multiplier.val)
                                ELSE end_dt - days.val
                    end_price == price(s, end_dt, FALSE)
                    trail_price == price(s, trail_dt, FALSE)
                IN  IF end_price.err # "none" THEN end_price
                    ELSE IF trail_price.err # "none" THEN trail_price
                    ELSE IF trail_price.val.num = 0
                         THEN Returned(IF end_price.val.num = 0 THEN NaN ELSE Inf)
                    ELSE Returned(FDiv(FSub(end_price.val, trail_price.val), trail_price.val))

-----------------------------------------------------------------------------
(* Ticker.metric: the metric name and the dispatch *)

StrRolling == <<"r", "o", "l", "l", "i", "n", "g">>
StrTrailing == <<"t", "r", "a", "i", "l", "i", "n", "g">>
StrNearest == <<"n", "e", "a", "r", "e", "s", "t">>
StrSortDates == <<"s", "o", "r", "t", "_", "d", "a", "t", "e", "s">>
StrForceFloat == <<"f", "o", "r", "c", "e", "_", "f", "l", "o", "a", "t">>
StrSharpe == <<"s", "h", "a", "r", "p", "e">>

\* the attributes of a Ticker named '_' + something that the class defines
\* itself: getattr finds these (and __init__ and what object defines, which
\* are left out here)
UnderscoreAttributes ==
    {<<"_">> \o m : m \in {StrRolling, StrTrailing, StrNearest, StrSortDates, StrForceFloat}}

Pad2(n) == IF n < 10 THEN <<"0">> \o IntToStr(n) ELSE IntToStr(n)

\* date.strftime('%Y-%m-%d')
strftime(d) ==
    IntToStr(CivilYear(d)) \o <<"-">> \o Pad2(MonthOf(d)) \o <<"-">> \o Pad2(DayOfMonth(d))

\* datetime.strptime(text, '%Y-%m-%d') for the years of the calendar above
strptime(text) ==
    LET parts == split(text, "-")
    IN  IF Len(parts) # 3 THEN Raised("ValueError")
        ELSE IF ~(IsDigitStr(parts[1]) /\ IsDigitStr(parts[2]) /\ IsDigitStr(parts[3]))
             THEN Raised("ValueError")
        ELSE IF Len(parts[1]) # 4 \/ Len(parts[2]) > 2 \/ Len(parts[3]) > 2 THEN Raised("ValueError")
        ELSE LET y == DigitsToInt(parts[1])
                 m == DigitsToInt(parts[2])
                 dd == DigitsToInt(parts[3])
             IN  IF m < 1 \/ m > 12 THEN Raised("ValueError")
                 ELSE IF dd < 1 \/ dd > MonthLength(m) THEN Raised("ValueError")
                 ELSE Returned(CivilDay(y, m, dd))

\* Ticker._nearest(target_date) with a str
nearest_of_text(s, text) ==
    LET target == strptime(text)
    IN  IF target.err # "none" THEN target ELSE nearest(s, target.val)

\* Ticker._force_float(raw) with a str of digits; with other characters
\* re.sub strips them first
force_float(text) ==
    LET clean == SelectSeq(text, LAMBDA c : IsDigit(c) \/ c = ".")
    IN  IF IsDigitStr(clean) THEN Returned(Frac(DigitsToInt(clean), 1)) ELSE Raised("ValueError")

\* the keyword arguments metric forwards
NoKwargs == [key |-> "none", average |-> TRUE, end |-> Today]

Average(b) == [key |-> "average", average |-> b, end |-> Today]

End(e) == [key |-> "end", average |-> TRUE, end |-> e]

\* method(period, **kwargs) for the attribute found
call_method(s, attr, period, kw, t, off) ==
    IF attr = <<"_">> \o StrRolling THEN
        IF kw.key = "end" THEN Raised("TypeError")
        ELSE rolling(s, period, kw.average, t, off)
    ELSE IF attr = <<"_">> \o StrTrailing THEN
        IF kw.key = "average" THEN Raised("TypeError")
        ELSE trailing(s, period, kw.end, t, off)
    ELSE IF attr = <<"_">> \o StrNearest THEN
        IF kw.key # "none" THEN Raised("TypeError")
        ELSE nearest_of_text(s, period.value)
    ELSE IF attr = <<"_">> \o StrForceFloat THEN
        IF kw.key # "none" THEN Raised("TypeError")
        ELSE force_float(period.value)
    ELSE Raised("TypeError")

\* annualize(total_return, period): (1 + r) ** (365 / days) - 1, kept as
\* the return and the days it is raised by
annualize(result, period, t, off) ==
    LET days == parse_period(period, t, off)
    IN  IF days.err # "none" THEN days
        ELSE IF days.val = 0 THEN Raised("ZeroDivisionError")
        ELSE Returned([annualized |-> result, days |-> days.val])

\* metric_type, period, *options = metric_name.split('/')
name_parts(metric_name) == split(metric_name, "/")

unpacks(metric_name) == Len(name_parts(metric_name)) >= 2

\* the attribute getattr finds for the metric name, <<>> when it finds none
\* or metric does not get to it
dispatched(s, metric_name) ==
    IF Len(s) = 0 \/ ~unpacks(metric_name) THEN <<>>
    ELSE LET attr == <<"_">> \o name_parts(metric_name)[1]
         IN  IF attr \in UnderscoreAttributes THEN attr ELSE <<>>

\* Ticker.metric(metric_name, **kwargs)
metric(s, metric_name, kw, t, off) ==
    IF Len(s) = 0 THEN Raised("TickerDataError")
    ELSE IF ~unpacks(metric_name) THEN Raised("ValueError: metric_name")
    ELSE
    LET parts == name_parts(metric_name)
        period == [type |-> "str", value |-> parts[2]]
        options == SubSeq(parts, 3, Len(parts))
        attr == dispatched(s, metric_name)
    IN  IF attr = <<>> THEN Raised("NotImplementedError")
        ELSE LET result == call_method(s, attr, period, kw, t, off)
             IN  IF result.err # "none" THEN result
                 ELSE IF \E i \in DOMAIN options : options[i] = <<"a">>
                      THEN annualize(result.val, period, t, off)
                 ELSE result

\* the mark of warn(f'Ignoring unknown metric option(s) {options}')
StrWarn == <<"w", "a", "r", "n">>

\* whether metric warns: the method has returned, the name has options and
\* none of them is 'a'
warns(s, metric_name, kw, t, off) ==
    /\ dispatched(s, metric_name) # <<>>
    /\ call_method(s, dispatched(s, metric_name),
                   [type |-> "str", value |-> name_parts(metric_name)[2]], kw, t, off).err = "none"
    /\ Len(name_parts(metric_name)) > 2
    /\ \A i \in 3 .. Len(name_parts(metric_name)) : name_parts(metric_name)[i] # <<"a">>

-----------------------------------------------------------------------------
(* Ticker.metric and Ticker._rolling called on a Ticker with a given series *)

\* get_dummy_data(num_days=31, low=10, high=160): 1969-12-02 .. 1970-01-01,
\* prices 10, 15, .. 160
TestSeries == [i \in 1 .. 31 |-> Row(i - 31, 10 + 5 * (i - 1))]

\* the dates of the other series: a Monday, a Wednesday and a Thursday
MetricDays == {FirstDay - 3, FirstDay - 1, FirstDay}

MetricSeries ==
    {<<>>, TestSeries} \cup
    {s \in SeqsUpTo(MetricDays, MaxSeriesLen) : NoDuplicates(s) /\ IsSorted(s)}

InitMetric ==
    /\ now \in Instants
    /\ tz \in TzOffsets
    /\ isForex = FALSE
    /\ data \in MetricSeries
    /\ csv = IF data = <<>> THEN NoFile ELSE File(data)
    /\ holdingsCsv = NoFile
    /\ holdings = NoFile
    /\ res = "idle"
    /\ mode = "none"
    /\ new = <<>>
    /\ pre = Cleared
    /\ did = {}
    /\ call = NoCall
    /\ ret = Returned(0)

Slashed(a, b) == a \o <<"/">> \o b

MetricTypes == {StrRolling, StrTrailing, StrNearest, StrSortDates, StrForceFloat, StrSharpe, <<>>}

MetricPeriods ==
    {Dashed(1, StrDay), Dashed(6, StrDay), Dashed(2, StrWeek), Dashed(1, StrMonth),
     StrYearly, strftime(FirstDay - 2), <<"1", "2">>}

OptionedPeriods == {Dashed(1, StrDay), Dashed(2, StrWeek)}

\* the names metric is called with: one to four parts
MetricNames ==
    MetricTypes
    \cup {Slashed(m, p) : m \in MetricTypes, p \in MetricPeriods}
    \cup {Slashed(Slashed(m, p), o) :
            m \in MetricTypes, p \in OptionedPeriods,
            o \in {<<"a">>, <<"b">>, Slashed(<<"a">>, <<"b">>)}}

MetricKwargs ==
    {NoKwargs, Average(TRUE), Average(FALSE), End(Today), End(OnDate(0)), End(OnDate(FirstDay - 2))}

\* the mean of a long distribution has a denominator beyond the integers of
\* the model: the mean is taken of distributions of up to MaxSeriesLen + 1
\* values
MeanInRange(s, period, t, off) ==
    LET all == rolling(s, period, FALSE, t, off)
    IN  all.err = "none" => Len(all.val) <= MaxSeriesLen + 1

call_metric ==
    /\ call = NoCall
    /\ \E metric_name \in MetricNames, kw \in MetricKwargs :
          /\ (dispatched(data, metric_name) = <<"_">> \o StrRolling /\ kw.key # "end" /\ kw.average)
                => MeanInRange(data, [type |-> "str", value |-> name_parts(metric_name)[2]], now, tz)
          /\ call' = [fn |-> "metric", metric_name |-> metric_name, kw |-> kw]
          /\ ret' = metric(data, metric_name, kw, now, tz)
          /\ did' = (IF dispatched(data, metric_name) = <<>> THEN {}
                     ELSE {dispatched(data, metric_name)})
                    \cup (IF warns(data, metric_name, kw, now, tz) THEN {StrWarn} ELSE {})
    /\ UNCHANGED <<now, tz, isForex, csv, data, holdingsCsv, holdings, res, mode, new, pre>>

call_rolling ==
    /\ call = NoCall
    /\ \E n \in 0 .. MaxSeriesLen + 1 \cup {30}, average \in BOOLEAN :
          /\ average => MeanInRange(data, [type |-> "int", value |-> n], now, tz)
          /\ call' = [fn |-> "_rolling", period |-> [type |-> "int", value |-> n],
                      average |-> average]
          /\ ret' = rolling(data, [type |-> "int", value |-> n], average, now, tz)
          /\ did' = {<<"_">> \o StrRolling}
    /\ UNCHANGED <<now, tz, isForex, csv, data, holdingsCsv, holdings, res, mode, new, pre>>

NextMetric == call_metric \/ call_rolling

SpecMetric == InitMetric /\ [][NextMetric]_vars

-----------------------------------------------------------------------------
(* Portfolio *)

\* the symbols a portfolio is made of: a company and two funds, one of them
\* also written in lower case
PortfolioSymbols == {"AAPL", "VGT", "VTI", "vti"}

\* str.upper()
upper(symbol) == IF symbol = "vti" THEN "VTI" ELSE symbol

\* the holdings files on disk, pct as a fraction (Holdings.vanguard: market
\* value over total value, download.py:216-218): the example of the
\* docstring of duplicate_positions
VgtHoldings ==
    <<HRow("MSFT", Frac(7823, 10000)), HRow("AAPL", Frac(21, 100)), HRow("MU", Frac(77, 10000))>>

VtiHoldings ==
    <<HRow("MSFT", Frac(9398, 10000)), HRow("AAPL", Frac(58, 1000)), HRow("MU", Frac(22, 10000))>>

\* a holdings file of Holdings.dataroma: the column '% ofPortfolio', in
\* percent (download.py:191-192)
DataromaHoldings == <<HRow("MSFT", Frac(60, 1)), HRow("MU", Frac(40, 1))>>

\* what <symbol>.holdings.csv can be: absent, or the table the last
\* refresh(holdings=True) stored
HoldingsFiles ==
    [s \in {upper(t) : t \in PortfolioSymbols} |->
        IF s = "VGT" THEN {NoFile, File(VgtHoldings)}
        ELSE IF s = "VTI" THEN {NoFile, File(VtiHoldings)}
        ELSE {NoFile, File(DataromaHoldings)}]

\* Ticker(symbol) as Portfolio uses it: the symbol in upper case, the
\* holdings and the price series read from disk
TickerOn(disk, symbol) ==
    [symbol |-> upper(symbol), holdings |-> disk[upper(symbol)].holdings,
     data |-> disk[upper(symbol)].data]

\* the weights argument: None or a list
NoWeights == [given |-> FALSE, values |-> <<>>]

Weights(w) == [given |-> TRUE, values |-> w]

Assembled(disk, tickers, weights) ==
    [tickers |-> [i \in DOMAIN tickers |-> TickerOn(disk, tickers[i])], weights |-> weights]

\* Portfolio.__init__(tickers, weights) with the files of disk
init(disk, tickers, weights) ==
    IF ~weights.given THEN
        IF Len(tickers) = 0 THEN Raised("ZeroDivisionError")
        ELSE Returned(Assembled(disk, tickers, [i \in DOMAIN tickers |-> Frac(1, Len(tickers))]))
    ELSE IF Len(weights.values) # Len(tickers) THEN Raised("ValueError: number of weights")
    ELSE IF FSum(weights.values) # Frac(1, 1) THEN Raised("ValueError: sum of weights")
    ELSE Returned(Assembled(disk, tickers, weights.values))

contributions_unweighted(ticker, weight, company) ==
    IF ~ticker.holdings.exists THEN
        IF ticker.symbol = company
        THEN <<[source |-> ticker.symbol, source_weight |-> Frac(1, 1), portfolio_weight |-> weight]>>
        ELSE <<>>
    ELSE LET rows == SelectSeq(ticker.holdings.rows, LAMBDA row : row.symbol = company)
         IN  [i \in DOMAIN rows |->
                [source |-> ticker.symbol, source_weight |-> rows[i].pct,
                 portfolio_weight |-> rows[i].pct]]

\* the records one instrument appends under the company
contributions(ticker, weight, company) ==
    IF ~ticker.holdings.exists THEN
        IF ticker.symbol = company
        THEN <<[source |-> ticker.symbol, source_weight |-> Frac(1, 1), portfolio_weight |-> weight]>>
        ELSE <<>>
    ELSE LET rows == SelectSeq(ticker.holdings.rows, LAMBDA row : row.symbol = company)
         IN  [i \in DOMAIN rows |->
                [source |-> ticker.symbol, source_weight |-> rows[i].pct,
                 portfolio_weight |-> FMul(rows[i].pct, weight)]]

\* the keys of company_positions
companies(portfolio) ==
    UNION {IF portfolio.tickers[i].holdings.exists
           THEN {portfolio.tickers[i].holdings.rows[j].symbol :
                    j \in DOMAIN portfolio.tickers[i].holdings.rows}
           ELSE {portfolio.tickers[i].symbol} : i \in DOMAIN portfolio.tickers}

RECURSIVE appended(_, _, _)
appended(portfolio, company, k) ==
    IF k = 0 THEN <<>>
    ELSE appended(portfolio, company, k - 1)
         \o contributions(portfolio.tickers[k], portfolio.weights[k], company)

\* Portfolio.company_positions: for every company the list of its records,
\* in the order of the instruments and of the rows of their holdings
company_positions(portfolio) ==
    [company \in companies(portfolio) |-> appended(portfolio, company, Len(portfolio.tickers))]

held_by(sources) == {sources[i].source : i \in DOMAIN sources}

duplicate_positions_all(portfolio, thres) ==
    LET positions == company_positions(portfolio)
        duplicated == {company \in DOMAIN positions :
                          /\ Cardinality(held_by(positions[company])) # 1
                          /\ \A i \in DOMAIN positions[company] :
                                FLe(thres, positions[company][i].source_weight)}
    IN  [company \in duplicated |-> positions[company]]

\* Portfolio.duplicate_positions(thres)
duplicate_positions(portfolio, thres) ==
    LET positions == company_positions(portfolio)
        duplicated == {company \in DOMAIN positions :
                          /\ Cardinality(held_by(positions[company])) # 1
                          /\ \E i \in DOMAIN positions[company] :
                                FLe(thres, positions[company][i].source_weight)}
    IN  [company \in duplicated |-> positions[company]]

\* an error whose message names holdings
RaisedNaming(e, symbols) == [err |-> e, val |-> symbols]

\* f'{period}'
formatted(period) == IF period.type = "int" THEN IntToStr(period.value) ELSE period.value

\* t.metric(metric_name, average=False) of a holding; the message of its
\* TickerDataError names the holding (data.py:451)
sample_pool(ticker, metric_name, t, off) ==
    IF Len(ticker.data) = 0 THEN RaisedNaming("TickerDataError", <<ticker.symbol>>)
    ELSE metric(ticker.data, metric_name, Average(FALSE), t, off)

\* the first holding whose metric raises, 0 when none does
first_raising(pools) ==
    LET raising == {i \in DOMAIN pools : pools[i].err # "none"}
    IN  IF raising = {} THEN 0
        ELSE CHOOSE i \in raising : \A j \in raising : i <= j

RECURSIVE symbols_of(_, _, _)
symbols_of(portfolio, missing, k) ==
    IF k = 0 THEN <<>>
    ELSE symbols_of(portfolio, missing, k - 1)
         \o (IF missing[k] THEN <<portfolio.tickers[k].symbol>> ELSE <<>>)

\* the symbols joined into the message of the RuntimeError
too_long(portfolio, missing) == symbols_of(portfolio, missing, Len(missing))

\* s.sample(n, replace=True) for every pool: n indices into each pool
Draws(sample_pools, n) ==
    LET longest == CHOOSE k \in {Len(sample_pools[i]) : i \in DOMAIN sample_pools} :
                       \A i \in DOMAIN sample_pools : Len(sample_pools[i]) <= k
    IN  {d \in [DOMAIN sample_pools -> [1 .. n -> 1 .. longest]] :
            \A i \in DOMAIN d : \A j \in 1 .. n : d[i][j] <= Len(sample_pools[i])}

RECURSIVE weighted_sum(_, _, _, _)
weighted_sum(individual, weights, j, k) ==
    IF k = 0 THEN Frac(0, 1)
    ELSE FAdd(weighted_sum(individual, weights, j, k - 1), FMul(individual[k][j], weights[k]))

composite_unweighted(individual, weights, n) ==
    [j \in 1 .. n |->
        weighted_sum(individual, [k \in DOMAIN weights |-> Frac(1, 1)], j, Len(individual))]

\* np.sum(individual * np.array(weights).reshape((-1, 1)), axis=0)
composite(individual, weights, n) ==
    [j \in 1 .. n |-> weighted_sum(individual, weights, j, Len(individual))]

\* ndarray.std() is the root of the mean squared deviation; the root is
\* kept as the number it is the root of
sqrt(x) == [sqrt_of |-> x]

std(xs) ==
    LET m == mean(xs)
    IN  sqrt(mean([j \in DOMAIN xs |-> FMul(FSub(xs[j], m), FSub(xs[j], m))]))

Least(S) == CHOOSE x \in S : \A y \in S : x <= y

\* mean, std and least number of data points for one choice of samples
summary(sample_pools, weights, n, d) ==
    {Returned([mean |-> mean(vector), std |-> std(vector),
               least |-> Least({Len(sample_pools[i]) : i \in DOMAIN sample_pools})]) :
        vector \in {composite([i \in DOMAIN sample_pools |->
                                  [j \in 1 .. n |-> sample_pools[i][d[i][j]]]], weights, n)}}

\* expected_return once the metric of every holding was taken
simulated(portfolio, pools, n) ==
    IF first_raising(pools) # 0 THEN {pools[first_raising(pools)]}
    ELSE UNION {
        IF \E i \in DOMAIN missing : missing[i]
        THEN {RaisedNaming("RuntimeError: Insufficient data", too_long(portfolio, missing))}
        ELSE IF Len(pools) = 0 THEN {Raised("ValueError")}
        ELSE UNION {summary([i \in DOMAIN pools |-> pools[i].val], portfolio.weights, n, d) :
                       d \in Draws([i \in DOMAIN pools |-> pools[i].val], n)} :
        missing \in {[i \in DOMAIN pools |-> Len(pools[i].val) = 0]}}

\* Portfolio.expected_return(period, n): every result the random samples
\* can give
expected_return(portfolio, period, n, t, off) ==
    UNION {simulated(portfolio, pools, n) :
        pools \in {[i \in DOMAIN portfolio.tickers |->
                       sample_pool(portfolio.tickers[i], metric_name, t, off)] :
                   metric_name \in {Slashed(StrRolling, formatted(period))}}}

-----------------------------------------------------------------------------
(* A Portfolio constructed from the files on disk, and its positions *)

InitPortfolio ==
    /\ now \in {FirstDay * 24 + 12, FirstDay * 24 + 36}
    /\ tz \in TzOffsets
    /\ isForex = FALSE
    /\ csv = NoFile
    /\ data = <<>>
    /\ holdingsCsv = NoFile
    /\ holdings = NoFile
    /\ res = "idle"
    /\ mode = "none"
    /\ new = <<>>
    /\ pre = Cleared
    /\ did = {}
    /\ call = NoCall
    /\ ret = Returned(0)

\* the tickers argument: up to MaxTickers symbols, repeats included
TickerLists(symbols) == UNION {[1 .. k -> symbols] : k \in 0 .. MaxTickers}

WeightValues == {Frac(1, 4), Frac(1, 2), Frac(3, 4), Frac(1, 1), Frac(3, 2), Frac(-1, 2)}

\* the weights argument: None, or up to MaxTickers weights
WeightLists(values) ==
    {NoWeights} \cup {Weights(w) : w \in UNION {[1 .. k -> values] : k \in 0 .. MaxTickers}}

\* the disk when no price file is there: every symbol with or without its
\* holdings file
HoldingsDisks ==
    {[s \in DOMAIN HoldingsFiles |-> [holdings |-> h[s], data |-> <<>>]] :
        h \in {g \in [DOMAIN HoldingsFiles -> UNION {HoldingsFiles[s] : s \in DOMAIN HoldingsFiles}] :
                  \A s \in DOMAIN HoldingsFiles : g[s] \in HoldingsFiles[s]}}

construct_portfolio(disks, symbols, values) ==
    /\ call = NoCall
    /\ \E disk \in disks, tickers \in TickerLists(symbols), weights \in WeightLists(values) :
          /\ call' = [fn |-> "Portfolio", tickers |-> tickers, weights |-> weights]
          /\ ret' = init(disk, tickers, weights)
    /\ UNCHANGED <<now, tz, isForex, csv, data, holdingsCsv, holdings, res, mode, new, pre, did>>

\* a Portfolio was constructed and nothing called on it yet
Constructed == call.fn = "Portfolio" /\ ret.err = "none"

read_company_positions ==
    /\ Constructed
    /\ call' = [fn |-> "company_positions", portfolio |-> ret.val]
    /\ ret' = Returned(company_positions(ret.val))
    /\ UNCHANGED <<now, tz, isForex, csv, data, holdingsCsv, holdings, res, mode, new, pre, did>>

Thresholds == {Frac(1, 100), Frac(1, 10)}

call_duplicate_positions ==
    /\ Constructed
    /\ \E thres \in Thresholds :
          /\ call' = [fn |-> "duplicate_positions", portfolio |-> ret.val, thres |-> thres]
          /\ ret' = Returned(duplicate_positions(ret.val, thres))
    /\ UNCHANGED <<now, tz, isForex, csv, data, holdingsCsv, holdings, res, mode, new, pre, did>>

NextPortfolio ==
    \/ construct_portfolio(HoldingsDisks, PortfolioSymbols, WeightValues)
    \/ read_company_positions
    \/ call_duplicate_positions

SpecPortfolio == InitPortfolio /\ [][NextPortfolio]_vars

-----------------------------------------------------------------------------
(* Portfolio.expected_return on a Portfolio constructed from price files *)

SimSymbols == {"AAPL", "VTI"}

\* the price files: none, one row, or three rows
SimSeries ==
    [s \in DOMAIN HoldingsFiles |->
        IF s = "AAPL"
        THEN {<<>>, <<Row(FirstDay - 2, 1)>>,
              <<Row(FirstDay - 2, 1), Row(FirstDay - 1, 2), Row(FirstDay, 1)>>}
        ELSE IF s = "VTI"
        THEN {<<>>, <<Row(FirstDay - 2, 2)>>,
              <<Row(FirstDay - 2, 2), Row(FirstDay - 1, 1), Row(FirstDay, 4)>>}
        ELSE {<<>>}]

\* the disk when no holdings file is there
PriceDisks ==
    {[s \in DOMAIN SimSeries |-> [holdings |-> NoFile, data |-> d[s]]] :
        d \in {g \in [DOMAIN SimSeries -> UNION {SimSeries[s] : s \in DOMAIN SimSeries}] :
                  \A s \in DOMAIN SimSeries : g[s] \in SimSeries[s]}}

SimWeightValues == {Frac(1, 4), Frac(1, 2), Frac(3, 4), Frac(1, 1)}

\* the period argument: a str or an int
SimPeriodStrings == {Dashed(1, StrDay), Dashed(2, StrDay)}

SimPeriodDays == {1}

\* the n argument
TrialCounts == {1, 2}

expected(period, n) ==
    /\ Constructed
    /\ call' = [fn |-> "expected_return", portfolio |-> ret.val, period |-> period, n |-> n]
    /\ ret' \in expected_return(ret.val, period, n, now, tz)
    /\ UNCHANGED <<now, tz, isForex, csv, data, holdingsCsv, holdings, res, mode, new, pre, did>>

call_expected_return ==
    \/ \E s \in SimPeriodStrings, n \in TrialCounts : expected([type |-> "str", value |-> s], n)
    \/ \E days \in SimPeriodDays, n \in TrialCounts : expected([type |-> "int", value |-> days], n)

NextSim ==
    \/ construct_portfolio(PriceDisks, SimSymbols, SimWeightValues)
    \/ call_expected_return

SpecSim == InitPortfolio /\ [][NextSim]_vars

-----------------------------------------------------------------------------
(* Launcher._refresh_tickers: the refresh of a list of instruments *)
(* Here csv is the disk, the price file of every symbol; call holds the   *)
(* tickers argument and the position i of the loop; did is the log of the *)
(* loop: <<"current", symbol, "">>, <<"fetch", symbol, outcome>> and      *)
(* <<"sleep", symbol, "12">>.  The batch runs within one reading of the   *)
(* clock.                                                                 *)

BatchSymbols == {"AAPL", "VTI"}

\* the price file of a symbol: none, or one row an earlier refresh wrote
BatchFiles == {NoFile, File(<<Row(FirstDay - 1, 1)>>), File(<<Row(FirstDay, 1)>>)}

\* the launcher is started on a disk of price files
InitBatch ==
    /\ now \in {FirstDay * 24 + 12, FirstDay * 24 + 36}
    /\ tz \in TzOffsets
    /\ isForex = FALSE
    /\ csv \in [BatchSymbols -> BatchFiles]
    /\ data = <<>>
    /\ holdingsCsv = NoFile
    /\ holdings = NoFile
    /\ res = "idle"
    /\ mode = "none"
    /\ new = <<>>
    /\ pre = Cleared
    /\ did = <<>>
    /\ call = NoCall
    /\ ret = Returned(0)

\* how timeseries() ends when it does not return: APIError on a bad status
\* and on a body without the series, ValueError on a body that is not JSON
\* and on an empty series (zip(*ts.items()) of no items), ConnectionError
\* out of requests.get
FetchFailures == {"APIError", "ValueError", "ConnectionError"}

\* except exceptions.APIError
caught(e) == e = "APIError"

\* the series timeseries() returns to the batch: the close of one of the
\* last days
BatchFetched == {<<Row(d, 1)>> : d \in {e \in SeriesDays : FirstDay - 1 <= e /\ e <= now \div 24}}

\* _refresh_tickers(tickers) is entered
launch ==
    /\ res = "idle"
    /\ \E tickers \in TickerLists(BatchSymbols) :
          call' = [fn |-> "_refresh_tickers", i |-> 1, tickers |-> tickers]
    /\ res' = "looping"
    /\ did' = <<>>
    /\ UNCHANGED <<now, tz, isForex, csv, data, holdingsCsv, holdings, mode, new, pre, ret>>

\* the loop goes on to the next ticker
continue(events) ==
    /\ did' = did \o events
    /\ call' = [call EXCEPT !.i = @ + 1]
    /\ UNCHANGED <<res, ret>>

\* an exception leaves the loop and _refresh_tickers
propagates(events, e) ==
    /\ did' = did \o events
    /\ res' = "raised"
    /\ ret' = Raised(e)
    /\ UNCHANGED call

\* one pass of the loop: Ticker(t), is_current, refresh(), sleep(12)
pass ==
    /\ res = "looping"
    /\ call.i <= Len(call.tickers)
    /\ UNCHANGED <<now, tz, isForex, data, holdingsCsv, holdings, mode, new, pre>>
    /\ \E t \in {call.tickers[call.i]} :
       \E d \in sort_dates(csv[t].rows) :
          IF is_current(d).err # "none"
          THEN /\ propagates(<<>>, is_current(d).err)
               /\ UNCHANGED csv
          ELSE IF is_current(d).val
          THEN /\ continue(<<<<"current", t, "">>>>)
               /\ UNCHANGED csv
          ELSE \/ \E e \in FetchFailures :
                     /\ IF caught(e)
                        THEN continue(<<<<"fetch", t, e>>>>)
                        ELSE propagates(<<<<"fetch", t, e>>>>, e)
                     /\ UNCHANGED csv
               \/ \E n \in BatchFetched :
                  \E merged \in merge(csv[t].exists, d, n) :
                     /\ csv' = [csv EXCEPT ![t] = written(merged)]
                     /\ continue(<<<<"fetch", t, "ok">>, <<"sleep", t, "12">>>>)

\* the loop is over and _refresh_tickers returns None
finish ==
    /\ res = "looping"
    /\ call.i > Len(call.tickers)
    /\ res' = "returned"
    /\ ret' = Returned(0)
    /\ UNCHANGED <<now, tz, isForex, csv, data, holdingsCsv, holdings, mode, new, pre, did, call>>

\* the launcher has ended and can be started again
ended ==
    /\ res \in {"returned", "raised"}
    /\ res' = "idle"
    /\ did' = <<>>
    /\ call' = NoCall
    /\ ret' = Returned(0)
    /\ UNCHANGED <<now, tz, isForex, csv, data, holdingsCsv, holdings, mode, new, pre>>

NextBatch ==
    \/ launch
    \/ pass
    \/ finish
    \/ ended

SpecBatch == InitBatch /\ [][NextBatch]_vars

-----------------------------------------------------------------------------
(* Portfolio.company_positions as a cached property, and the refresh of the *)
(* holdings of an instrument of the Portfolio                               *)
(* Here csv is the disk, the holdings file and the price rows of every      *)
(* symbol; data is the Portfolio, holdings its attribute                    *)
(* _company_positions; pre keeps the first mapping the Portfolio returned   *)
(* and mode whether the last access was its first.                          *)

CacheSymbols == {"AAPL", "VGT"}

\* self._company_positions = None
NotComputed == [computed |-> FALSE, val |-> <<>>]

Computed(positions) == [computed |-> TRUE, val |-> positions]

\* the table a later download of the holdings of an instrument returns
LatestTables == {VtiHoldings}

\* the series timeseries() returns for an instrument of the Portfolio: the
\* close of the day
LatestSeries == {<<Row(now \div 24, 1)>>}

\* the disk: AAPL and VGT with or without their holdings files
CacheDisks == {disk \in HoldingsDisks : ~disk["VTI"].holdings.exists}

\* the Portfolios that can be constructed on a disk, weights left as None
Portfolios(disk) ==
    {p.val : p \in {q \in {init(disk, tickers, NoWeights) : tickers \in TickerLists(CacheSymbols)} :
                       q.err = "none"}}

\* a Portfolio has just been constructed
InitCache ==
    /\ now = FirstDay * 24 + 36
    /\ tz \in TzOffsets
    /\ isForex = FALSE
    /\ csv \in CacheDisks
    /\ data \in Portfolios(csv)
    /\ holdingsCsv = NoFile
    /\ holdings = NotComputed
    /\ res = "constructed"
    /\ mode = "none"
    /\ new = <<>>
    /\ pre = NotComputed
    /\ did = {}
    /\ call = NoCall
    /\ ret = Returned(0)

\* Portfolio(tickers): a new object with the files now on disk
construct_anew ==
    /\ res = "accessed"
    /\ data' \in Portfolios(csv)
    /\ holdings' = NotComputed
    /\ res' = "constructed"
    /\ mode' = "none"
    /\ pre' = NotComputed
    /\ did' = {}
    /\ call' = NoCall
    /\ ret' = Returned(0)
    /\ UNCHANGED <<now, tz, isForex, csv, holdingsCsv, new>>

\* if self._company_positions is None
runs_loop(cache) == ~cache.computed

recomputed_positions(portfolio, cache) == Computed(company_positions(portfolio))

\* the property company_positions: the loop runs when the private attribute
\* is None, and the attribute is returned
cached_positions(portfolio, cache) ==
    IF runs_loop(cache) THEN Computed(company_positions(portfolio)) ELSE cache

\* portfolio.company_positions is read
access_positions ==
    /\ call' = [fn |-> "company_positions"]
    /\ holdings' = cached_positions(data, holdings)
    /\ ret' = Returned(holdings'.val)
    /\ did' = IF runs_loop(holdings) THEN {"computed"} ELSE {}
    /\ pre' = IF pre.computed THEN pre ELSE Computed(holdings'.val)
    /\ mode' = IF pre.computed THEN "later" ELSE "first"
    /\ res' = "accessed"
    /\ UNCHANGED <<now, tz, isForex, csv, data, holdingsCsv, new>>

\* portfolio.tickers[i].refresh(holdings=True) on an instrument that is not
\* current: the price series is fetched and written, then the holdings
\* table is downloaded, written and kept by the Ticker
refresh_instrument ==
    /\ \E i \in DOMAIN data.tickers :
       \E n \in LatestSeries :
       \E merged \in merge(data.tickers[i].data # <<>>, data.tickers[i].data, n) :
          /\ is_current(data.tickers[i].data) = Returned(FALSE)
          /\ \/ /\ data' = [data EXCEPT !.tickers[i].data = merged]
                /\ csv' = [csv EXCEPT ![data.tickers[i].symbol].data = merged]
                /\ res' = "holdings_error"
             \/ \E latest \in LatestTables :
                   /\ data' = [data EXCEPT !.tickers[i].data = merged,
                                           !.tickers[i].holdings = File(latest)]
                   /\ csv' = [csv EXCEPT ![data.tickers[i].symbol].data = merged,
                                         ![data.tickers[i].symbol].holdings = File(latest)]
                   /\ res' = "refreshed"
    /\ call' = [fn |-> "refresh"]
    /\ ret' = Returned(0)
    /\ did' = {}
    /\ UNCHANGED <<now, tz, isForex, holdingsCsv, holdings, mode, new, pre>>

NextCache ==
    \/ construct_anew
    \/ access_positions
    \/ refresh_instrument

SpecCache == InitCache /\ [][NextCache]_vars

-----------------------------------------------------------------------------
(* Ticker(symbol, merge) on price files edited by hand, and its refreshes *)
(* Here csv is the disk, the price files gld.csv of the symbol and        *)
(* xau.csv of the reference; data, holdingsCsv and holdings are those of  *)
(* Ticker('gld', merge).                                                  *)

\* a row of a frame that has the relative column
RRow(d, p, r) == [date |-> d, price |-> p, relative |-> r]

\* the other column of self.data.join(rel) on a date: NaN where the
\* reference has no row of that date
other_filled(rel, d) ==
    LET known == {e \in Dates(rel) : e <= d}
    IN  IF known = {} THEN NaN ELSE Frac(PriceOn(rel, MaxDate(SelectSeq(rel, LAMBDA r : r.date <= d))), 1)

other(rel, d) == IF d \in Dates(rel) THEN Frac(PriceOn(rel, d), 1) ELSE NaN

\* row.price / row.other
division(p, o) == IF o = NaN THEN NaN ELSE FDiv(Frac(p, 1), o)

\* self.data['relative'] = combined.apply(lambda row: row.price / row.other, axis=1)
relative(frame, rel) ==
    [i \in DOMAIN frame |->
        RRow(frame[i].date, frame[i].price, division(frame[i].price, other(rel, frame[i].date)))]

\* Ticker.data as __init__ leaves it: the price file as read, with the
\* relative column when merge is given and its file exists, then _sort_dates
loaded(primary, merging, reference) ==
    IF primary.exists
    THEN IF merging /\ reference.exists
         THEN sort_dates(relative(primary.rows, reference.rows))
         ELSE sort_dates(primary.rows)
    ELSE {<<>>}

\* the price file of the symbol as edited by hand: rows in any order, dates
\* repeated or not
EditedFiles == {NoFile} \cup {File(s) : s \in SeqsUpTo(FileDays, MaxFileLen)}

\* the price file of the reference, as a refresh wrote it
ReferenceFiles ==
    {NoFile, File(<<Row(5, 1)>>), File(<<Row(FirstDay - 1, 2)>>),
     File(<<Row(5, 1), Row(FirstDay - 1, 2)>>)}

\* the holdings file as edited by hand: rows in any order
EditedHoldings == {NoFile} \cup {File(t) : t \in RawTables \cup DownloadedTables}

\* the series timeseries() returns to the Ticker
LoadFetched == UniqueSeries({FirstDay - 1, FirstDay}, MaxFetchLen)

InitLoad ==
    /\ now = FirstDay * 24 + 36
    /\ tz \in TzOffsets
    /\ isForex = FALSE
    /\ csv \in {[gld |-> p, xau |-> r] : p \in EditedFiles, r \in ReferenceFiles}
    /\ data = <<>>
    /\ holdingsCsv \in EditedHoldings
    /\ holdings = NoFile
    /\ res = "idle"
    /\ mode = "none"
    /\ new = <<>>
    /\ pre = Cleared
    /\ did = {}
    /\ call = NoCall
    /\ ret = Returned(0)

\* Ticker('gld', merge): merge is None or 'xau'
construct_merged ==
    /\ res = "idle"
    /\ \E merging \in BOOLEAN :
          /\ call' = [fn |-> "Ticker", merging |-> merging]
          /\ data' \in loaded(csv.gld, merging, csv.xau)
    /\ holdings' = holdingsCsv
    /\ res' = "constructed"
    /\ new' = <<>>
    /\ did' = {}
    /\ UNCHANGED <<now, tz, isForex, csv, holdingsCsv, mode, pre, ret>>

\* refresh(holdings=h) of the Ticker constructed
refresh_loaded(h) ==
    /\ res = "constructed"
    /\ UNCHANGED <<now, tz, isForex, mode, pre, call, ret>>
    /\ IF is_current(data).err # "none" \/ is_current(data).val
       THEN /\ res' = "noop"
            /\ UNCHANGED <<csv, data, holdingsCsv, holdings, new, did>>
       ELSE \/ /\ res' = "fetch_error"
               /\ UNCHANGED <<csv, data, holdingsCsv, holdings, new, did>>
            \/ \E n \in LoadFetched :
                  /\ new' = n
                  /\ data' \in merge(csv.gld.exists, data, n)
                  /\ csv' = [csv EXCEPT !.gld = written(data')]
                  /\ IF h
                     THEN \/ /\ res' = "holdings_error"
                             /\ did' = {"to_csv", "download"}
                             /\ UNCHANGED <<holdingsCsv, holdings>>
                          \/ \E latest \in DownloadedTables :
                                /\ res' = "refreshed"
                                /\ did' = {"to_csv", "download", "holdings_to_csv"}
                                /\ holdingsCsv' = File(latest)
                                /\ holdings' = File(latest)
                     ELSE /\ res' = "refreshed"
                          /\ did' = {"to_csv"}
                          /\ UNCHANGED <<holdingsCsv, holdings>>

\* the Ticker is dropped; the files stay
dropped ==
    /\ res \notin {"idle", "constructed"}
    /\ res' = "idle"
    /\ data' = <<>>
    /\ holdings' = NoFile
    /\ new' = <<>>
    /\ did' = {}
    /\ call' = NoCall
    /\ UNCHANGED <<now, tz, isForex, csv, holdingsCsv, mode, pre, ret>>

NextLoad ==
    \/ construct_merged
    \/ \E h \in BOOLEAN : refresh_loaded(h)
    \/ dropped

SpecLoad == InitLoad /\ [][NextLoad]_vars

-----------------------------------------------------------------------------
(* Ticker.refresh: merge, early return, errors, fetch window *)

Merged == res \in {"refreshed", "holdings_error"}

Fetched == res \in {"fetch_error", "refreshed", "holdings_error"}

Refreshed == res \in {"noop", "calendar_error", "fetch_error", "refreshed", "holdings_error"}

\* the dates a merge must end with
UnionOfDates == Dates(new) \cup (IF pre.csv.exists THEN Dates(pre.data) ELSE {})

\* C1: when refresh merges a fetched series with an existing one, the dates
\* of the result are exactly the existing dates and the incoming dates, and
\* every row of the result whose date is an incoming date carries the
\* incoming price.
C1_MergeUnionIncomingWins ==
    (Merged /\ pre.csv.exists) =>
        /\ Dates(data) = Dates(pre.data) \cup Dates(new)
        /\ \A i \in DOMAIN data :
              data[i].date \in Dates(new) => data[i].price = PriceOn(new, data[i].date)

\* a merge in which incoming and existing disagree on the price of a shared
\* date and each brings a date the other lacks
C1_Witness ==
    /\ res = "refreshed"
    /\ pre.csv.exists
    /\ \E d \in Dates(pre.data) \cap Dates(new) : PriceOn(pre.data, d) # PriceOn(new, d)
    /\ Dates(pre.data) \ Dates(new) # {}
    /\ Dates(new) \ Dates(pre.data) # {}

\* C2: merging the same incoming series a second time into the result of a
\* merge leaves it unchanged: every outcome of merge(data, new) is data.
C2_MergeIdempotent == Merged => merge(TRUE, data, new) = {data}

\* the first merge changed a price and added a date
C2_Witness ==
    /\ Merged
    /\ pre.csv.exists
    /\ Len(new) = 2
    /\ \E d \in Dates(pre.data) \cap Dates(new) : PriceOn(pre.data, d) # PriceOn(new, d)
    /\ Dates(new) \ Dates(pre.data) # {}

\* C3: a refresh of a Ticker whose series is current makes no fetch, writes
\* neither file and leaves the series and the holdings as they were.
C3_CurrentRefreshNoOp ==
    (Refreshed /\ is_current(pre.data) = Returned(TRUE)) =>
        /\ res = "noop"
        /\ mode = "none"
        /\ did = {}
        /\ csv = pre.csv
        /\ data = pre.data
        /\ holdings = pre.holdings

\* a refresh that found a current series and a holdings table
C3_Witness ==
    /\ res = "noop"
    /\ is_current(pre.data) = Returned(TRUE)
    /\ pre.holdings.exists

\* C4 as claimed: after a refresh that completed without error the series
\* is current, so that the next refresh at the same clock returns at once
\* (no fetch, no write).
C4_RefreshThenNoOp == res = "refreshed" => is_current(data) = Returned(TRUE)

\* C5 as claimed: a refresh that ended in an error of the price fetch or of
\* the holdings fetch left the price file as it was.
C5_ErrorLeavesFile == res \in {"fetch_error", "holdings_error"} => csv = pre.csv

\* C5 amended: after a failed price fetch the price file is what it was and
\* was not written; after a failed holdings fetch the price file holds the
\* whole merged series, which is the series in memory, and the holdings
\* file was not written.
C5_ErrorFileWholeOrUntouched ==
    /\ res = "fetch_error" => (csv = pre.csv /\ did = {})
    /\ res = "holdings_error" =>
          /\ csv = File(data)
          /\ Dates(data) = UnionOfDates
          /\ NoDuplicates(data)
          /\ "holdings_to_csv" \notin did

\* a failed holdings fetch behind a price file that changed
C5_Witness == res = "holdings_error" /\ csv # pre.csv /\ pre.csv.exists

\* C6 as claimed: a refresh that fetches asks for "full" when no price file
\* exists or the latest local date is more than 100 days before today, and
\* for "compact" otherwise.
C6_FetchWindow ==
    Fetched =>
        mode = IF ~pre.csv.exists \/ LocalDate(now, tz) - MaxDate(pre.data) > 100
               THEN "full" ELSE "compact"

\* C6 amended: a forex symbol is fetched from metals(), which takes no
\* mode; any other symbol is fetched with "full" when no price file exists
\* or the latest local date is 100 days or more before today (more than 100
\* at local midnight), and with "compact" otherwise; what was fetched is
\* merged with the existing series and written.
C6_FetchWindowAmended ==
    /\ Fetched =>
          mode = IF isForex THEN "metals"
                 ELSE IF ~pre.csv.exists THEN "full"
                 ELSE LET age == LocalDate(now, tz) - MaxDate(pre.data)
                          hour == LocalTime(now, tz) % 24
                      IN  IF age > 100 \/ (age = 100 /\ hour > 0) THEN "full" ELSE "compact"
    /\ Merged => (csv = File(data) /\ Dates(data) = UnionOfDates)

\* a "full" fetch over a price file whose latest date is 100 days back
C6_Witness ==
    /\ res = "refreshed"
    /\ ~isForex
    /\ pre.csv.exists
    /\ LocalDate(now, tz) - MaxDate(pre.data) = 100
    /\ mode = "full"

-----------------------------------------------------------------------------
(* market_day *)

\* the trading day before and after a date
PreviousTradingDay(d) ==
    CHOOSE p \in d - 10 .. d - 1 : IsTradingDay(p) /\ \A q \in p + 1 .. d - 1 : ~IsTradingDay(q)

NextTradingDay(d) ==
    CHOOSE p \in d + 1 .. d + 10 : IsTradingDay(p) /\ \A q \in d + 1 .. p - 1 : ~IsTradingDay(q)

\* C7 as claimed: market_day('latest') of today, with the default window,
\* returns a trading day whose session has finished.
C7_LatestIsCompleted ==
    (/\ call.fn = "market_day"
     /\ call.direction = "latest"
     /\ call.reference = Today
     /\ call.search_days = DefaultSearchDays
     /\ ret.err = "none") =>
        /\ IsTradingDay(ret.val)
        /\ market_close(ret.val) <= now

\* C8 as claimed: whenever market_day returns, 'previous' is the trading
\* day just before and 'next' the trading day just after the day 'latest'
\* returns for the same reference and window.
C8_PreviousNextAroundLatest ==
    (/\ call.fn = "market_day"
     /\ call.direction \in {"previous", "next"}
     /\ ret.err = "none") =>
        LET anchor == market_day("latest", call.reference, call.search_days, now, tz)
        IN  /\ anchor.err = "none"
            /\ call.direction = "previous" => ret.val = PreviousTradingDay(anchor.val)
            /\ call.direction = "next" => ret.val = NextTradingDay(anchor.val)

-----------------------------------------------------------------------------
(* parse_period *)

\* C9 as claimed: parse_period('yearly') returns 365.
C9_YearlyIs365 ==
    (/\ call.fn = "parse_period"
     /\ call.period.type = "str"
     /\ call.period.value = StrYearly) => ret = Returned(365)

\* the base days of C10
BaseDays(k) ==
    IF k = StrDay THEN 1
    ELSE IF k = StrWeek THEN 7
    ELSE IF k = StrMonth THEN 30
    ELSE IF k = StrQuarter THEN 91
    ELSE 365

\* C10: for keyword in day, week, month, quarter, year, parse_period of
\* '<keyword>' returns the keyword's base days and parse_period of
\* '<m>-<keyword>' returns m times the base days.
C10_MultiplierTimesBase ==
    (call.fn = "parse_period" /\ call.period.type = "str") =>
        \A k \in {StrDay, StrWeek, StrMonth, StrQuarter, StrYear} :
            /\ call.period.value = k => ret = Returned(BaseDays(k))
            /\ \A m \in 0 .. MaxMult :
                  call.period.value = Dashed(m, k) => ret = Returned(m * BaseDays(k))

\* '10-month' parsed to 300 (US/Eastern, on the first day of the clock)
C10_Witness ==
    /\ tz = -5
    /\ now = FirstDay * 24 + 16
    /\ call.fn = "parse_period"
    /\ call.period.type = "str"
    /\ call.period.value = Dashed(10, StrMonth)
    /\ ret = Returned(300)

-----------------------------------------------------------------------------
(* Ticker.metric *)

\* metric was called on a series with data and a name of two parts or more
Dispatching ==
    /\ call.fn = "metric"
    /\ Len(data) > 0
    /\ unpacks(call.metric_name)

metric_type == name_parts(call.metric_name)[1]

\* C11 as claimed: metric called with a metric_type other than 'rolling' and
\* 'trailing' fails with NotImplementedError and executes no method of the
\* Ticker on the period.
C11_UnknownTypeUnsupported ==
    (Dispatching /\ metric_type \notin {StrRolling, StrTrailing}) =>
        /\ ret.err = "NotImplementedError"
        /\ did = {}

\* C12 as claimed: on a series with data, metric fails with the ValueError
\* of the metric name for every name that is not of exactly two or three
\* slash-separated parts.
C12_NameOfTwoOrThreeParts ==
    (/\ call.fn = "metric"
     /\ Len(data) > 0
     /\ Len(name_parts(call.metric_name)) \notin {2, 3}) =>
        ret.err = "ValueError: metric_name"

\* the returns (price[i+n] - price[i]) / price[i] of the index pairs of s
PairReturns(s, n) ==
    [i \in 1 .. (IF Len(s) >= n + 1 THEN Len(s) - n ELSE 0) |->
        Frac(s[i + n].price - s[i].price, s[i].price)]

\* C13: for a series of L rows in ascending date order and a period of n
\* days the rolling returns are L - n values when L >= n + 1, value i being
\* (price[i+n] - price[i]) / price[i], and none when L < n + 1; on the test
\* series of 31 rows the returns of '1-month' (30 days) are the one value
\* 150/10.
C13_RollingDistribution ==
    /\ (call.fn = "_rolling" /\ ~call.average) =>
          ret = Returned(PairReturns(data, call.period.value))
    /\ (/\ call.fn = "metric"
        /\ Len(data) > 0
        /\ call.kw = Average(FALSE)
        /\ \E n \in {1, 6} : call.metric_name = Slashed(StrRolling, Dashed(n, StrDay))) =>
          ret = Returned(PairReturns(data, DigitsToInt(SubSeq(call.metric_name, 9, 9))))
    /\ (/\ call.fn = "metric"
        /\ data = TestSeries
        /\ call.kw = Average(FALSE)
        /\ call.metric_name = Slashed(StrRolling, Dashed(1, StrMonth))) =>
          ret = Returned(<<Frac(150, 10)>>)

\* the test series over 30 days: the one return (160 - 10) / 10
C13_Witness ==
    /\ call.fn = "_rolling"
    /\ ~call.average
    /\ call.period.value = 30
    /\ data = TestSeries
    /\ ret = Returned(<<Frac(15, 1)>>)

\* the dates of the series no other date of the series is nearer to d than
NearestDates(s, d) ==
    {e \in Dates(s) : \A f \in Dates(s) : Abs(e - d) <= Abs(f - d)}

\* the date an endpoint d is replaced by
Endpoints(s, d) == IF d \in Dates(s) THEN {d} ELSE NearestDates(s, d)

\* the end date of the trailing return that was asked for
EndDate == IF call.kw.end.kind = "today" THEN LocalDate(now, tz) ELSE call.kw.end.date

\* the periods of the test and one day
TrailingPeriods == {Dashed(1, StrDay), Dashed(6, StrDay), Dashed(2, StrWeek), Dashed(1, StrMonth)}

\* the end date minus the period
StartDate(p) ==
        IF p = Dashed(1, StrDay) THEN EndDate - 1
        ELSE IF p = Dashed(6, StrDay) THEN EndDate - 6
        ELSE IF p = Dashed(2, StrWeek) THEN EndDate - 14
        ELSE CivilDay(
                IF MonthOf(EndDate) = 1 THEN CivilYear(EndDate) - 1 ELSE CivilYear(EndDate),
                IF MonthOf(EndDate) = 1 THEN 12 ELSE MonthOf(EndDate) - 1,
                IF DayOfMonth(EndDate) > MonthLength(IF MonthOf(EndDate) = 1 THEN 12 ELSE MonthOf(EndDate) - 1)
                THEN MonthLength(IF MonthOf(EndDate) = 1 THEN 12 ELSE MonthOf(EndDate) - 1)
                ELSE DayOfMonth(EndDate))

\* metric('trailing/<period>') was called, with or without an end date
TrailingOver(p) ==
    /\ call.fn = "metric"
    /\ Len(data) > 0
    /\ call.metric_name = Slashed(StrTrailing, p)
    /\ call.kw.key # "average"

\* C14: the trailing return over a period ending at an end date is
\* (price(end) - price(start)) / price(start), start being the end date
\* minus the period and an endpoint that is no date of the series being
\* replaced by its nearest date of the series; on the test series with end
\* 1970-01-01 it is 30/130 for '6-day', 70/90 for '2-week' and 150/10 for
\* '1-month'.
C14_TrailingReturn ==
    /\ \A p \in TrailingPeriods :
          TrailingOver(p) =>
              \E e \in Endpoints(data, EndDate), b \in Endpoints(data, StartDate(p)) :
                  ret = Returned(Frac(PriceOn(data, e) - PriceOn(data, b), PriceOn(data, b)))
    /\ (data = TestSeries /\ call.fn = "metric" /\ call.kw = End(OnDate(0))) =>
          /\ TrailingOver(Dashed(6, StrDay)) => ret = Returned(Frac(30, 130))
          /\ TrailingOver(Dashed(2, StrWeek)) => ret = Returned(Frac(70, 90))
          /\ TrailingOver(Dashed(1, StrMonth)) => ret = Returned(Frac(150, 10))

\* the test series, one month back from 1970-01-01: 1969-12-01 is no date of
\* the series and 1969-12-02 stands in for it
C14_Witness ==
    /\ data = TestSeries
    /\ TrailingOver(Dashed(1, StrMonth))
    /\ call.kw = End(OnDate(0))
    /\ StartDate(Dashed(1, StrMonth)) = -31
    /\ StartDate(Dashed(1, StrMonth)) \notin Dates(data)
    /\ ret = Returned(Frac(15, 1))

-----------------------------------------------------------------------------
(* Portfolio *)

\* company_positions was read of a constructed Portfolio
PositionsRead == call.fn = "company_positions"

\* C15 as claimed: when no instrument of the portfolio has a holdings
\* table, every symbol of company_positions maps to exactly one record, and
\* that record has source_weight 1.
C15_OneRecordPerSymbol ==
    (/\ PositionsRead
     /\ \A i \in DOMAIN call.portfolio.tickers : ~call.portfolio.tickers[i].holdings.exists) =>
        \A symbol \in DOMAIN ret.val :
            /\ Len(ret.val[symbol]) = 1
            /\ ret.val[symbol][1].source_weight = Frac(1, 1)

\* all records of company_positions, of every company
AllRecords(positions) ==
    UNION {{<<company, i, positions[company][i]>> : i \in DOMAIN positions[company]} :
              company \in DOMAIN positions}

RECURSIVE SumOfWeights(_)
SumOfWeights(records) ==
    IF records = {} THEN Frac(0, 1)
    ELSE LET r == CHOOSE x \in records : TRUE
         IN  FAdd(r[3].portfolio_weight, SumOfWeights(records \ {r}))

\* C16 as claimed: for every instrument of the portfolio, the
\* portfolio_weight of all records of company_positions whose source is that
\* instrument sum to the portfolio weight of the instrument.
C16_SourceWeightsSumToWeight ==
    PositionsRead =>
        \A i \in DOMAIN call.portfolio.tickers :
            SumOfWeights({r \in AllRecords(ret.val) :
                             r[3].source = call.portfolio.tickers[i].symbol})
                = call.portfolio.weights[i]

\* the company is held through two sources and one of its source_weight
\* values is thres or more
HeldTwiceAbove(sources, thres) ==
    /\ \E i, j \in DOMAIN sources : sources[i].source # sources[j].source
    /\ \E i \in DOMAIN sources :
          sources[i].source_weight.num * thres.den >= thres.num * sources[i].source_weight.den

\* the portfolio of the two funds of the docstring, each with its holdings
TwoFunds(portfolio) ==
    /\ Len(portfolio.tickers) = 2
    /\ portfolio.tickers[1].symbol = "VGT"
    /\ portfolio.tickers[1].holdings = File(VgtHoldings)
    /\ portfolio.tickers[2].symbol = "VTI"
    /\ portfolio.tickers[2].holdings = File(VtiHoldings)

\* C17: duplicate_positions(threshold) returns exactly the companies of
\* company_positions that are held through more than one source and have a
\* source_weight of threshold or more, each with its records; with threshold
\* 0.01 a company that is 21% of one fund and 5.8% of the other is returned
\* and a company that is 0.77% and 0.22% of them is not.
C17_DuplicatePositions ==
    call.fn = "duplicate_positions" =>
        LET positions == company_positions(call.portfolio)
        IN  /\ DOMAIN ret.val =
                  {company \in DOMAIN positions : HeldTwiceAbove(positions[company], call.thres)}
            /\ \A company \in DOMAIN ret.val : ret.val[company] = positions[company]
            /\ (TwoFunds(call.portfolio) /\ call.thres = Frac(1, 100)) =>
                  /\ "AAPL" \in DOMAIN ret.val
                  /\ "MU" \notin DOMAIN ret.val

\* the two funds at threshold 0.1: AAPL is 21% of one and below the
\* threshold in the other, and is returned
C17_Witness ==
    /\ call.fn = "duplicate_positions"
    /\ TwoFunds(call.portfolio)
    /\ call.thres = Frac(1, 10)
    /\ call.portfolio.weights = <<Frac(1, 4), Frac(3, 4)>>
    /\ DOMAIN ret.val = {"MSFT", "AAPL"}
    /\ ret.val["AAPL"][2].source_weight = Frac(58, 1000)

\* C18 as claimed: every constructed Portfolio has one weight per ticker,
\* every weight non-negative and the weights summing to 1; without a weights
\* argument every weight is 1/N; the construction fails when the number of
\* weights is not the number of tickers or the weights do not sum to 1.
C18_WeightsOfPortfolio ==
    call.fn = "Portfolio" =>
        /\ ret.err = "none" =>
              /\ Len(ret.val.weights) = Len(ret.val.tickers)
              /\ \A i \in DOMAIN ret.val.weights : ret.val.weights[i].num >= 0
              /\ FSum(ret.val.weights) = Frac(1, 1)
        /\ (ret.err = "none" /\ ~call.weights.given) =>
              \A i \in DOMAIN ret.val.weights :
                  ret.val.weights[i] = Frac(1, Len(call.tickers))
        /\ (/\ call.weights.given
            /\ \/ Len(call.weights.values) # Len(call.tickers)
               \/ FSum(call.weights.values) # Frac(1, 1)) => ret.err # "none"

\* the holdings whose series is too short for a return over the period:
\* their rolling returns are none
WithoutReturns(portfolio, days) ==
    {i \in DOMAIN portfolio.tickers : Len(portfolio.tickers[i].data) < days + 1}

\* the symbols an error names
Named(error) == {error.val[k] : k \in DOMAIN error.val}

\* C19 as claimed: whenever the rolling returns of at least one holding are
\* none for the period, expected_return fails with the error of insufficient
\* data, and the error names every holding whose rolling returns are none.
C19_InsufficientDataNamesAll ==
    (call.fn = "expected_return" /\ call.period.type = "str") =>
        LET short == WithoutReturns(call.portfolio, parse_period(call.period, now, tz).val)
        IN  short # {} =>
                /\ ret.err \in {"RuntimeError: Insufficient data", "TickerDataError"}
                /\ \A i \in short : call.portfolio.tickers[i].symbol \in Named(ret)

\* expected_return returned for a period given as a str
Simulated == call.fn = "expected_return" /\ call.period.type = "str" /\ ret.err = "none"

\* the rolling returns of every holding of the call
Distributions ==
    [i \in DOMAIN call.portfolio.tickers |->
        PairReturns(call.portfolio.tickers[i].data, parse_period(call.period, now, tz).val)]

\* for every holding, n of its rolling returns
Samplings(distributions, n) ==
    {s \in [DOMAIN distributions ->
               [1 .. n -> UNION {{distributions[i][k] : k \in DOMAIN distributions[i]} :
                                    i \in DOMAIN distributions}]] :
        \A i \in DOMAIN s : \A j \in 1 .. n :
            \E k \in DOMAIN distributions[i] : s[i][j] = distributions[i][k]}

\* the sum over the holdings of weight times sample j
WeightedSample(samples, weights, j) ==
    FSum([i \in DOMAIN samples |-> FMul(weights[i], samples[i][j])])

\* the mean of the squares less the square of the mean
Variance(xs) ==
    FSub(FDiv(FSum([j \in DOMAIN xs |-> FMul(xs[j], xs[j])]), Frac(Len(xs), 1)),
         FMul(FDiv(FSum(xs), Frac(Len(xs), 1)), FDiv(FSum(xs), Frac(Len(xs), 1))))

\* C20: expected_return(period, trials) returns the mean and the standard
\* deviation of a vector of length trials, the elementwise sum over the
\* holdings of weight times the sampled returns of the holding, and the
\* least number of rolling returns of a holding; when every holding has one
\* rolling return and trials = 1 the standard deviation is 0 and the mean is
\* the weighted sum of these returns.
C20_ExpectedReturn ==
    Simulated =>
        /\ \E samples \in Samplings(Distributions, call.n) :
              \E vector \in {[j \in 1 .. call.n |->
                                WeightedSample(samples, call.portfolio.weights, j)]} :
                  /\ ret.val.mean = FDiv(FSum(vector), Frac(call.n, 1))
                  /\ ret.val.std = sqrt(Variance(vector))
        /\ \A i \in DOMAIN Distributions : ret.val.least <= Len(Distributions[i])
        /\ \E i \in DOMAIN Distributions : ret.val.least = Len(Distributions[i])
        /\ (call.n = 1 /\ \A i \in DOMAIN Distributions : Len(Distributions[i]) = 1) =>
              /\ ret.val.std = sqrt(Frac(0, 1))
              /\ ret.val.mean =
                    FSum([i \in DOMAIN Distributions |->
                            FMul(call.portfolio.weights[i], Distributions[i][1])])

\* two holdings of three rows at weights 1/4 and 3/4, returns over one day,
\* two trials that differ
C20_Witness ==
    /\ Simulated
    /\ call.n = 2
    /\ call.period.value = Dashed(1, StrDay)
    /\ Len(call.portfolio.tickers) = 2
    /\ call.portfolio.weights = <<Frac(1, 4), Frac(3, 4)>>
    /\ ret.val.least = 2
    /\ ret.val.std # sqrt(Frac(0, 1))

-----------------------------------------------------------------------------
(* Launcher._refresh_tickers *)

\* a call of the price fetch that did not return a series
FetchFailed(event) == event[1] = "fetch" /\ event[3] # "ok"

\* the passes of the loop made so far
Passes == {k \in DOMAIN did : did[k][1] \in {"current", "fetch"}}

\* C21: in a multi-instrument refresh a failed fetch skips its instrument
\* and the later instruments are still processed: the batch never ends on a
\* failed fetch, and a batch that returns has passed over every instrument
C21_FetchFailureSkipped ==
    /\ res = "raised" => ~(did # <<>> /\ FetchFailed(did[Len(did)]))
    /\ res = "returned" => Cardinality(Passes) = Len(call.tickers)

\* C30: between any two consecutive calls of the price fetch the launcher
\* sleeps 12 seconds, whether the earlier call succeeded or failed, and an
\* instrument that is current causes neither a fetch nor a sleep
C30_SleepBetweenFetches ==
    /\ \A j, k \in DOMAIN did :
          (j < k /\ did[j][1] = "fetch" /\ did[k][1] = "fetch") =>
              \E m \in j + 1 .. k - 1 : did[m] = <<"sleep", did[j][2], "12">>
    /\ \A k \in DOMAIN did :
          did[k][1] = "sleep" => k > 1 /\ did[k - 1][1] = "fetch"

-----------------------------------------------------------------------------
(* Ticker.__init__ and the files it loads *)

\* a Ticker was just constructed with merge given, both price files there
MergedLoad == res = "constructed" /\ call.merging /\ csv.gld.exists /\ csv.xau.exists

\* the price the reference file holds for a date
ReferencePrice(d) ==
    CHOOSE p \in Prices : \E i \in DOMAIN csv.xau.rows : csv.xau.rows[i] = Row(d, p)

\* C22 as stated: with a reference series to merge, the relative price on a
\* date of both series is the primary price divided by the reference price,
\* and the relative series has no entry on a date of one series only
C22_RelativeOnOverlap ==
    MergedLoad =>
        \A i \in DOMAIN data :
            /\ data[i].date \in Dates(csv.gld.rows) \cap Dates(csv.xau.rows)
            /\ data[i].relative = Frac(data[i].price, ReferencePrice(data[i].date))

\* C22 amended: with a reference series to merge, the relative price on a
\* date of both series is the primary price divided by the reference price;
\* a date of the reference series only is dropped, and a date of the primary
\* series only keeps its row, with a missing (NaN) relative price that is
\* never filled or interpolated
C22_RelativeOnOverlapAmended ==
    MergedLoad =>
        /\ Len(data) = Len(csv.gld.rows)
        /\ \A i \in DOMAIN data :
              /\ \E k \in DOMAIN csv.gld.rows :
                    /\ csv.gld.rows[k].date = data[i].date
                    /\ csv.gld.rows[k].price = data[i].price
              /\ IF data[i].date \in Dates(csv.xau.rows)
                 THEN data[i].relative = Frac(data[i].price, ReferencePrice(data[i].date))
                 ELSE data[i].relative = NaN

\* a primary series of two dates merged with a reference series that has
\* only the earlier of them
C22_Witness ==
    /\ MergedLoad
    /\ csv.xau.rows = <<Row(5, 1)>>
    /\ data = <<RRow(5, 2, Frac(2, 1)), RRow(FirstDay - 1, 1, NaN)>>

\* C24: a Ticker's holdings table, whenever present, is sorted descending by
\* pct: after loading a holdings file with rows in any order, and after
\* every holdings refresh
C24_HoldingsDescending == holdings.exists => IsDescending(holdings.rows)

\* C26: after construction and after any sequence of successful refreshes
\* the in-memory price series is ascending by date with at most one entry
\* per date, whatever the order or repetition of the rows on disk
C26_SeriesSortedUnique ==
    res \in {"constructed", "refreshed"} => IsSorted(data) /\ NoDuplicates(data)

\* C29: the price file a refresh has written holds only the columns date
\* and price, one row per date, whether or not the Ticker was constructed
\* with a reference series to merge
C29_FileColumns ==
    "to_csv" \in did =>
        /\ \A i \in DOMAIN csv.gld.rows : DOMAIN csv.gld.rows[i] = {"date", "price"}
        /\ NoDuplicates(csv.gld.rows)

-----------------------------------------------------------------------------
(* Ticker._nearest *)

\* _nearest was called through metric with a date that parses
NearestCalled ==
    /\ call.fn = "metric"
    /\ did = {<<"_">> \o StrNearest}
    /\ call.kw = NoKwargs
    /\ Len(name_parts(call.metric_name)) = 2
    /\ strptime(name_parts(call.metric_name)[2]).err = "none"

TargetDate == strptime(name_parts(call.metric_name)[2]).val

\* the distances at which the target, absent from the series, has a date of
\* the series on both sides and none closer
TieDistances ==
    {k \in {Abs(e - TargetDate) : e \in Dates(data)} :
        /\ TargetDate \notin Dates(data)
        /\ TargetDate - k \in Dates(data)
        /\ TargetDate + k \in Dates(data)
        /\ \A e \in Dates(data) : Abs(e - TargetDate) >= k}

\* C23 as stated: a target absent from the series and equally distant from
\* the closest earlier and the closest later date gives the earlier date
C23_NearestTieEarlier ==
    NearestCalled =>
        \A k \in TieDistances : ret.err = "none" /\ ret.val = TargetDate - k

\* C23 amended: a target absent from the series and equally distant from
\* the closest earlier and the closest later date gives the later date
C23_NearestTieLater ==
    NearestCalled =>
        \A k \in TieDistances : ret.err = "none" /\ ret.val = TargetDate + k

\* Tuesday 1970-04-14 looked up in a series of the Monday and the Wednesday
C23_Witness ==
    /\ NearestCalled
    /\ TargetDate = FirstDay - 2
    /\ Dates(data) = {FirstDay - 3, FirstDay - 1}
    /\ ret = Returned(FirstDay - 1)

-----------------------------------------------------------------------------
(* Ticker.metric: options *)

\* the options of the name called
Options == SubSeq(name_parts(call.metric_name), 3, Len(name_parts(call.metric_name)))

\* the name called without its options other than 'a'
WithoutUnknown ==
    LET named == Slashed(name_parts(call.metric_name)[1], name_parts(call.metric_name)[2])
    IN  IF \E i \in DOMAIN Options : Options[i] = <<"a">> THEN Slashed(named, <<"a">>) ELSE named

\* C25: a metric name with an option other than 'a' makes metric warn and
\* not fail, and the option is ignored: the result is that of the name
\* without it, whenever that name gives a result
C25_UnknownOptionWarned ==
    (Dispatching /\ \E i \in DOMAIN Options : Options[i] # <<"a">>) =>
        \A base \in {metric(data, WithoutUnknown, call.kw, now, tz)} :
            base.err = "none" => (ret = base /\ StrWarn \in did)

-----------------------------------------------------------------------------
(* Portfolio.company_positions: the records *)

\* what gives rise to a record under a symbol: <<i, 0>> for instrument i
\* without a holdings table and of that symbol, <<i, j>> for row j of the
\* holdings table of instrument i when the row is of that symbol
Origins(portfolio, symbol) ==
    {<<i, 0>> : i \in {k \in DOMAIN portfolio.tickers :
                          /\ ~portfolio.tickers[k].holdings.exists
                          /\ portfolio.tickers[k].symbol = symbol}}
    \cup UNION {{<<i, j>> : j \in {m \in DOMAIN portfolio.tickers[i].holdings.rows :
                                      portfolio.tickers[i].holdings.rows[m].symbol = symbol}} :
                   i \in {k \in DOMAIN portfolio.tickers : portfolio.tickers[k].holdings.exists}}

\* the record the claim gives an origin
RecordOf(portfolio, origin) ==
    IF origin[2] = 0
    THEN [source |-> portfolio.tickers[origin[1]].symbol,
          source_weight |-> Frac(1, 1),
          portfolio_weight |-> portfolio.weights[origin[1]]]
    ELSE [source |-> portfolio.tickers[origin[1]].symbol,
          source_weight |-> portfolio.tickers[origin[1]].holdings.rows[origin[2]].pct,
          portfolio_weight |->
              Frac(portfolio.tickers[origin[1]].holdings.rows[origin[2]].pct.num
                       * portfolio.weights[origin[1]].num,
                   portfolio.tickers[origin[1]].holdings.rows[origin[2]].pct.den
                       * portfolio.weights[origin[1]].den)]

\* the symbols of the instruments and of the rows of their holdings tables
SymbolsOf(portfolio) ==
    {portfolio.tickers[i].symbol : i \in DOMAIN portfolio.tickers}
    \cup UNION {{portfolio.tickers[i].holdings.rows[j].symbol :
                    j \in DOMAIN portfolio.tickers[i].holdings.rows} :
                   i \in DOMAIN portfolio.tickers}

\* C28: company_positions holds one record {source = instrument,
\* source_weight = 1, portfolio_weight = weight} under the symbol of every
\* instrument without a holdings table, one record {source = instrument,
\* source_weight = pct, portfolio_weight = pct * weight} under the symbol of
\* every row of every holdings table, and no other record
C28_RecordsOfPositions ==
    PositionsRead =>
        /\ DOMAIN ret.val = {s \in SymbolsOf(call.portfolio) : Origins(call.portfolio, s) # {}}
        /\ \A s \in DOMAIN ret.val :
              /\ Len(ret.val[s]) = Cardinality(Origins(call.portfolio, s))
              /\ \A o \in Origins(call.portfolio, s) :
                    Cardinality({k \in DOMAIN ret.val[s] : ret.val[s][k] = RecordOf(call.portfolio, o)})
                        = Cardinality({p \in Origins(call.portfolio, s) :
                                          RecordOf(call.portfolio, p) = RecordOf(call.portfolio, o)})

\* AAPL held directly and through VGT, while AAPL's own holdings file does
\* not exist and VGT's row symbols are not expanded
C28_Witness ==
    /\ PositionsRead
    /\ Len(call.portfolio.tickers) = 2
    /\ call.portfolio.tickers[1].symbol = "AAPL"
    /\ ~call.portfolio.tickers[1].holdings.exists
    /\ call.portfolio.tickers[2].symbol = "VGT"
    /\ call.portfolio.tickers[2].holdings.exists
    /\ call.portfolio.weights = <<Frac(1, 4), Frac(3, 4)>>
    /\ ret.val["AAPL"] =
          <<[source |-> "AAPL", source_weight |-> Frac(1, 1), portfolio_weight |-> Frac(1, 4)],
            [source |-> "VGT", source_weight |-> Frac(21, 100), portfolio_weight |-> Frac(63, 400)]>>
    /\ DOMAIN ret.val = {"AAPL", "MSFT", "MU"}

-----------------------------------------------------------------------------
(* Portfolio.company_positions: the cache *)

\* C27: once company_positions has been computed for a Portfolio, every
\* later access returns that same mapping without computing it again, also
\* after the holdings of an instrument were refreshed in between; the first
\* access of a newly constructed Portfolio computes the mapping
C27_PositionsCached ==
    res = "accessed" =>
        /\ ret.val = pre.val
        /\ mode = "later" => did = {}
        /\ mode = "first" => (did = {"computed"} /\ ret.val = company_positions(data))

\* a later access after a holdings refresh: the mapping returned is the
\* first one, no longer that of the holdings the instruments have now
C27_Witness ==
    /\ res = "accessed"
    /\ mode = "later"
    /\ ret.val = pre.val
    /\ ret.val # company_positions(data)

=============================================================================
